---- MODULE Spec2Model ----
(***************************************************************************)
(* Model of the card-sorting analysis engine of src/src/lib/analysis.ts:   *)
(* computeSimilarityMatrix, computeHierarchicalClustering (with            *)
(* buildDendrogramTree and generateSuggestedClusters), analyzeCardPlace-   *)
(* ments, generateInsights, analyzeCategoryUsage and runFullAnalysis.      *)
(*                                                                         *)
(* JavaScript numbers are modelled as exact rationals <<num, den>> in      *)
(* lowest terms (den > 0); <<0, 0>> is NaN and <<1, 0>> is Infinity.       *)
(* Array indices are 1-based here and 0-based in the source.               *)
(***************************************************************************)
EXTENDS Integers, Sequences, FiniteSets, TLC

(***************************************************************************)
(* Bounds of the model.                                                    *)
(***************************************************************************)
MaxCards == 3
MaxSessions == 2
MaxPlacements == 2
MaxClusterCards == 4
MaxTime == 1
MaxInsightCards == 3
MaxTallySessions == 3
MaxStoreCards == 2
MaxCategories == 2
MaxGeneratedIds == 2
MaxHistory == 2
MaxHeld == 3
MaxCategoryRows == 2
MaxMoves == 1
MaxUndoCount == 1
MaxActions == 3
MaxApiTime == 1
MaxRequests == 3

(***************************************************************************)
(* Numbers.                                                                *)
(***************************************************************************)
Abs(x) == IF x < 0 THEN -x ELSE x

RECURSIVE GCD(_, _)
GCD(a, b) == IF b = 0 THEN a ELSE GCD(b, a % b)

NaN == <<0, 0>>
Infinity == <<1, 0>>

\* The rational n/d in lowest terms; x/0 is Infinity, -Infinity or NaN as in JS.
Rat(n, d) ==
  IF d = 0 THEN <<(IF n > 0 THEN 1 ELSE IF n < 0 THEN -1 ELSE 0), 0>>
  ELSE LET g == GCD(Abs(n), Abs(d))
           s == IF d < 0 THEN -1 ELSE 1
       IN <<(s * n) \div g, (s * d) \div g>>

Num(k) == <<k, 1>>
IsNaN(a) == a = NaN
RAdd(a, b) ==
  IF a[2] = 0 \/ b[2] = 0
  THEN (IF IsNaN(a) \/ IsNaN(b) THEN NaN
        ELSE IF a[2] = 0 /\ b[2] = 0 THEN (IF a = b THEN a ELSE NaN)
        ELSE IF a[2] = 0 THEN a ELSE b)
  ELSE Rat(a[1] * b[2] + b[1] * a[2], a[2] * b[2])
RNeg(a) == <<-a[1], a[2]>>
RSub(a, b) == RAdd(a, RNeg(b))
RMul(a, b) ==
  IF a[2] = 0 \/ b[2] = 0
  THEN (IF IsNaN(a) \/ IsNaN(b) \/ a[1] = 0 \/ b[1] = 0 THEN NaN
        ELSE <<(IF (a[1] > 0) = (b[1] > 0) THEN 1 ELSE -1), 0>>)
  ELSE Rat(a[1] * b[1], a[2] * b[2])
RDiv(a, b) ==
  IF a[2] = 0 \/ b[2] = 0
  THEN (IF IsNaN(a) \/ IsNaN(b) \/ (a[2] = 0 /\ b[2] = 0) THEN NaN
        ELSE IF b[2] = 0 THEN Num(0)
        ELSE <<(IF (a[1] > 0) = (b[1] > 0) THEN 1 ELSE -1), 0>>)
  ELSE IF b[1] = 0 THEN Rat(a[1], 0)
  ELSE Rat(a[1] * b[2], a[2] * b[1])
\* a < b and a <= b; every comparison with NaN is false.
RLt(a, b) ==
  /\ ~IsNaN(a) /\ ~IsNaN(b)
  /\ IF a[2] = 0 /\ b[2] = 0 THEN a[1] < b[1]
     ELSE IF a[2] = 0 THEN a[1] < 0
     ELSE IF b[2] = 0 THEN b[1] > 0
     ELSE a[1] * b[2] < b[1] * a[2]
RLe(a, b) == ~IsNaN(a) /\ ~IsNaN(b) /\ (a = b \/ RLt(a, b))

RECURSIVE RSum(_)
RSum(s) == IF s = <<>> THEN Num(0) ELSE RAdd(s[1], RSum(Tail(s)))

(***************************************************************************)
(* Generic helpers for JavaScript arrays.                                  *)
(***************************************************************************)
\* JavaScript's undefined, and the value of an output no call has set yet.
Undefined == [undefined |-> TRUE]
None == [none |-> TRUE]
TypeError == [thrown |-> "TypeError"]

\* Array.prototype.indexOf: the first index holding x, or 0 (the source's -1).
IndexOf(s, x) ==
  IF \E k \in DOMAIN s : s[k] = x
  THEN CHOOSE k \in DOMAIN s : s[k] = x /\ \A l \in 1..(k - 1) : s[l] # x
  ELSE 0

\* The members of a finite set of integers, ascending.
Ascending(S) ==
  [k \in 1..Cardinality(S) |->
     CHOOSE x \in S : Cardinality({y \in S : y < x}) = k - 1]

\* The indices 1..m other than a and b, ascending: what
\* filter((_, i) => i !== a && i !== b) keeps.
Keep(m, a, b) == Ascending((1..m) \ {a, b})

\* All sequences over S of length at most n.
SeqsUpTo(S, n) == UNION {[1..k -> S] : k \in 0..n}

(***************************************************************************)
(* State: the inputs of an analysis run and what each function returned.   *)
(***************************************************************************)
VARIABLES
  cards,            \* Card[]: the cards of the study, in order
  sessions,         \* SortingSession[]: the sessions passed in
  similarityMatrix, \* what computeSimilarityMatrix returned, or None
  clusterAnalysis,  \* what computeHierarchicalClustering returned, or None
  cardSummaries,    \* what analyzeCardPlacements returned, or None
  analysisResults,  \* what runFullAnalysis returned, or None
  insights,         \* what generateInsights returned, or None
  clusters,         \* computeHierarchicalClustering's clusters, inside a call
  currentDist,      \* its currentDist
  mergeHistory,     \* its mergeHistory
  sharesMatrix,     \* whether its currentDist is the array similarityMatrix.matrix
  pc                \* "idle", or which function returned last

\* The local variables of computeHierarchicalClustering.
loopVars == <<clusters, currentDist, mergeHistory, sharesMatrix>>

\* The card-sort store (useCardSortStore); its cards are the variable cards.
VARIABLES
  categories,       \* Category[]: the categories, each with its cardIds
  unsortedCardIds,  \* string[]: the cards of the unsorted tray
  actionHistory,    \* SortAction[]: the moves, oldest first
  lastAnnouncement, \* the last screen-reader announcement
  undoRun           \* the caller's run of moveCard calls and their undo calls

storeVars == <<categories, unsortedCardIds, actionHistory, lastAnnouncement, undoRun>>

\* The database behind the API routes, and the requests being handled.
VARIABLES
  study,              \* the study row
  participantSession, \* the participantSession rows, in insertion order
  cardPlacement,      \* the cardPlacement rows
  createdCategory,    \* the createdCategory rows
  sessionAction,      \* the sessionAction rows, in insertion order
  requests            \* the session-creation requests: each one's position and locals

apiVars == <<study, participantSession, cardPlacement, createdCategory,
             sessionAction, requests>>

vars == <<cards, sessions, similarityMatrix, clusterAnalysis, cardSummaries,
          analysisResults, insights, loopVars, pc, storeVars, apiVars>>

\* The store as create() leaves it, but for its cards.
StoreInitial ==
  /\ categories = <<>>
  /\ unsortedCardIds = <<>>
  /\ actionHistory = <<>>
  /\ lastAnnouncement = [text |-> ""]
  /\ undoRun = None

\* No study, no rows and no request.
DatabaseEmpty ==
  /\ study = None
  /\ participantSession = <<>>
  /\ cardPlacement = {}
  /\ createdCategory = <<>>
  /\ sessionAction = <<>>
  /\ requests = <<>>

(***************************************************************************)
(* Input data. Card ids are 1..MaxCards; a study has the first n of them,  *)
(* so a placement may name a card the study does not have.                 *)
(***************************************************************************)
Card(i) == [id |-> i, label |-> <<"card", i>>]
CardLists == {[i \in 1..n |-> Card(i)] : n \in 0..MaxCards}

\* Category names are sequences of characters.
CategoryTable ==
  << [id |-> "k1", name |-> <<"A", "b">>],
     [id |-> "k2", name |-> <<"?", "!">>] >>

\* The placements of the cards ids in the categories of the table.
Placements(ids) ==
  {[cardId |-> c, categoryId |-> CategoryTable[k].id,
    categoryName |-> CategoryTable[k].name] :
     c \in ids, k \in DOMAIN CategoryTable}

\* participant.completedAt and participant.duration; Null is JavaScript's null.
Null == -1
Completed == [completedAt |-> 1, duration |-> 4]
Abandoned == [completedAt |-> Null, duration |-> Null]

\* The session lists of a study with the cards cs: every session was shown
\* the study's cards, has the categories of the table, places cards among ids
\* and has a participant among P.
SessionsOver(P, cs, ids) ==
  SeqsUpTo({[cards |-> cs,
             categories |-> CategoryTable,
             placements |-> pl,
             participant |-> pa] :
              pl \in SeqsUpTo(Placements(ids), MaxPlacements), pa \in P},
           MaxSessions)

(***************************************************************************)
(* computeSimilarityMatrix                                                 *)
(***************************************************************************)
\* As CardArray, but the placements are not grouped by category.
CardArrayUngrouped(placements, c) ==
  LET first == {k \in DOMAIN placements :
                  \A l \in 1..(k - 1) :
                     placements[l].cardId # placements[k].cardId}
      order == Ascending(first)
  IN [k \in DOMAIN order |-> placements[order[k]].cardId]

\* As CardArray, but the placements are grouped by the categoryName of the
\* placements of category c.
CardArrayByName(placements, c) ==
  LET inGroup(k) ==
        \E l \in DOMAIN placements :
          /\ placements[l].categoryId = c
          /\ placements[l].categoryName = placements[k].categoryName
      first == {k \in DOMAIN placements :
                  /\ inGroup(k)
                  /\ \A l \in 1..(k - 1) :
                       ~(inGroup(l) /\ placements[l].cardId = placements[k].cardId)}
      order == Ascending(first)
  IN [k \in DOMAIN order |-> placements[order[k]].cardId]

\* Array.from of the Set<cardId> the Map holds for category c after one
\* session's placements: the cards placed in c, each once, in insertion order.
CardArray(placements, c) ==
  LET first == {k \in DOMAIN placements :
                  /\ placements[k].categoryId = c
                  /\ \A l \in 1..(k - 1) :
                       ~(/\ placements[l].categoryId = c
                         /\ placements[l].cardId = placements[k].cardId)}
      order == Ascending(first)
  IN [k \in DOMAIN order |-> placements[order[k]].cardId]

\* As Incremented, but only the cell [idxA][idxB] is incremented.
IncrementedOneWay(idxA, idxB) ==
  IF idxA # 0 /\ idxB # 0 THEN {<<idxA, idxB>>} ELSE {}

\* The cells lines 58-61 increment for a pair found at idxA and idxB.
Incremented(idxA, idxB) ==
  IF idxA # 0 /\ idxB # 0 THEN {<<idxA, idxB>>, <<idxB, idxA>>} ELSE {}

\* How often one session increments coOccurrences[a][b]: the loops of lines
\* 52-64 over every category's card array and every i < j of it.
SessionCoOccurrences(session, cardIds, a, b) ==
  LET pl == session.placements
      cats == {pl[k].categoryId : k \in DOMAIN pl}
      hits(c) ==
        LET cardArray == CardArray(pl, c)
        IN {<<i, j>> \in (DOMAIN cardArray) \X (DOMAIN cardArray) :
              /\ i < j
              /\ <<a, b>> \in Incremented(IndexOf(cardIds, cardArray[i]),
                                         IndexOf(cardIds, cardArray[j]))}
  IN Cardinality(UNION {{<<c, h>> : h \in hits(c)} : c \in cats})

RECURSIVE CoOccurrences(_, _, _, _)
CoOccurrences(ss, cardIds, a, b) ==
  IF ss = <<>> THEN 0
  ELSE SessionCoOccurrences(Head(ss), cardIds, a, b)
         + CoOccurrences(Tail(ss), cardIds, a, b)

\* As Similarity, without the guard against no participant.
SimilarityUnguarded(count, participantCount) ==
  RDiv(Num(count), Num(participantCount))

\* As ParticipantCount, counting only the sessions that placed a card.
ParticipantCountPlaced(ss) ==
  Cardinality({k \in DOMAIN ss : ss[k].placements # <<>>})

\* Line 68: participantCount.
ParticipantCount(ss) == Len(ss)

\* count / participantCount under the guard of line 70.
Similarity(count, participantCount) ==
  IF participantCount > 0 THEN RDiv(Num(count), Num(participantCount))
  ELSE Num(0)

computeSimilarityMatrix(ss, cs) ==
  LET n == Len(cs)
      cardIds == [i \in 1..n |-> cs[i].id]
      cardLabels == [i \in 1..n |-> cs[i].label]
      participantCount == ParticipantCount(ss)
  IN [cardIds |-> cardIds,
      cardLabels |-> cardLabels,
      matrix |-> [i \in 1..n |-> [j \in 1..n |->
                    IF i = j THEN Num(1)
                    ELSE Similarity(CoOccurrences(ss, cardIds, i, j),
                                    participantCount)]],
      participantCount |-> participantCount]

(***************************************************************************)
(* computeHierarchicalClustering                                           *)
(***************************************************************************)
\* As ScanPairs, but a pair at the distance of the best so far replaces it.
RECURSIVE ScanPairsLast(_, _, _, _, _)
ScanPairsLast(dist, m, i, j, best) ==
  IF i > m THEN best
  ELSE IF j > m THEN ScanPairsLast(dist, m, i + 1, i + 2, best)
  ELSE ScanPairsLast(dist, m, i, j + 1,
         IF RLe(dist[i][j], best.minDist)
         THEN [minDist |-> dist[i][j], minI |-> i, minJ |-> j]
         ELSE best)

\* The scan of lines 152-164 over the pairs i < j in row-major order, from
\* pair (i, j) on; best is the minimum found so far.
RECURSIVE ScanPairs(_, _, _, _, _)
ScanPairs(dist, m, i, j, best) ==
  IF i > m THEN best
  ELSE IF j > m THEN ScanPairs(dist, m, i + 1, i + 2, best)
  ELSE ScanPairs(dist, m, i, j + 1,
         IF RLt(dist[i][j], best.minDist)
         THEN [minDist |-> dist[i][j], minI |-> i, minJ |-> j]
         ELSE best)

\* As FindMinPair, but the first pair is taken whatever its distance.
FindFirstPair(dist, m) == [minDist |-> dist[1][2], minI |-> 1, minJ |-> 2]

FindMinPair(dist, m) ==
  ScanPairs(dist, m, 1, 2, [minDist |-> Infinity, minI |-> 1, minJ |-> 2])

\* As AvgDist, but the smaller of the two distances.
AvgDistNearest(distI, distJ) == IF RLt(distI, distJ) THEN distI ELSE distJ

\* Line 184: the distance from the merged cluster to a cluster k.
AvgDist(distI, distJ) == RDiv(RAdd(distI, distJ), Num(2))

\* One iteration of the while loop of lines 150-215, in which Date.now()
\* returns now: the clusters, currentDist and mergeHistory it ends with.
MergeOnce(cl, dist, history, now) ==
  LET m == Len(cl)
      min == FindMinPair(dist, m)
      minI == min.minI
      minJ == min.minJ
      newCluster ==
        [id |-> <<"cluster", m, now>>,
         items |-> cl[minI].items \o cl[minJ].items,
         children |-> <<cl[minI], cl[minJ]>>,
         distance |-> min.minDist]
      keep == Keep(m, minI, minJ)
      newDistances ==
        [k \in DOMAIN keep |-> AvgDist(dist[minI][keep[k]], dist[minJ][keep[k]])]
      newClusters == [k \in DOMAIN keep |-> cl[keep[k]]] \o <<newCluster>>
      newDist ==
        [r \in DOMAIN keep |->
           [c \in DOMAIN keep |-> dist[keep[r]][keep[c]]] \o <<newDistances[r]>>]
          \o <<newDistances \o <<Num(0)>>>>
  IN [clusters |-> newClusters,
      currentDist |-> newDist,
      mergeHistory |-> Append(history,
                              [merged |-> <<minI, minJ>>,
                               distance |-> min.minDist,
                               newCluster |-> newCluster])]

\* The while loop of lines 150-215. clock[k] is what Date.now() returns in
\* the k-th iteration.
RECURSIVE Agglomerate(_, _, _, _)
Agglomerate(cl, dist, history, clock) ==
  IF Len(cl) <= 1
  THEN [clusters |-> cl, mergeHistory |-> history]
  ELSE
    LET next == MergeOnce(cl, dist, history, clock[Len(history) + 1])
    IN Agglomerate(next.clusters, next.currentDist, next.mergeHistory, clock)

\* cardLabels[cardIds.indexOf(id)], or the id itself when it is not found.
LabelOf(id, cardIds, cardLabels) ==
  IF IndexOf(cardIds, id) # 0 THEN cardLabels[IndexOf(cardIds, id)] ELSE id

\* As buildDendrogramTree, but only the first child of a cluster is built.
RECURSIVE buildDendrogramTreeFirstChild(_, _, _)
buildDendrogramTreeFirstChild(cluster, cardIds, cardLabels) ==
  IF cluster = Undefined THEN TypeError
  ELSE IF "children" \notin DOMAIN cluster
  THEN [id |-> cluster.id,
        name |-> LabelOf(cluster.id, cardIds, cardLabels),
        cardId |-> cluster.id,
        value |-> Num(0)]
  ELSE [id |-> cluster.id,
        name |-> "Cluster",
        children |->
          <<buildDendrogramTreeFirstChild(cluster.children[1], cardIds,
                                          cardLabels)>>,
        value |-> cluster.distance]

\* buildDendrogramTree; reading .children of undefined throws a TypeError.
RECURSIVE buildDendrogramTree(_, _, _)
buildDendrogramTree(cluster, cardIds, cardLabels) ==
  IF cluster = Undefined THEN TypeError
  ELSE IF "children" \notin DOMAIN cluster
  THEN [id |-> cluster.id,
        name |-> LabelOf(cluster.id, cardIds, cardLabels),
        cardId |-> cluster.id,
        value |-> Num(0)]
  ELSE [id |-> cluster.id,
        name |-> "Cluster",
        children |->
          [k \in DOMAIN cluster.children |->
             buildDendrogramTree(cluster.children[k], cardIds, cardLabels)],
        value |-> cluster.distance]

thresholds == <<Rat(3, 10), Rat(1, 2), Rat(7, 10)>>

\* As ApplyMerge, but only the first of the two merged clusters is removed.
ApplyMergeKeepSecond(currentClusters, merge) ==
  LET keep == Keep(Len(currentClusters), merge.merged[1], merge.merged[1])
  IN [k \in DOMAIN keep |-> currentClusters[keep[k]]]
       \o <<[id |-> merge.newCluster.id, items |-> merge.newCluster.items]>>

\* Lines 278-279: the list after one merge is applied.
ApplyMerge(currentClusters, merge) ==
  LET keep == Keep(Len(currentClusters), merge.merged[1], merge.merged[2])
  IN [k \in DOMAIN keep |-> currentClusters[keep[k]]]
       \o <<[id |-> merge.newCluster.id, items |-> merge.newCluster.items]>>

\* As ApplyMerges, with the comparison against the threshold inverted.
RECURSIVE ApplyMergesAbove(_, _, _)
ApplyMergesAbove(history, currentClusters, threshold) ==
  IF history = <<>> THEN currentClusters
  ELSE ApplyMergesAbove(Tail(history),
                        IF RLe(threshold, Head(history).distance)
                        THEN ApplyMerge(currentClusters, Head(history))
                        ELSE currentClusters,
                        threshold)

\* As ApplyMerges, but a merge at exactly the threshold is not applied.
RECURSIVE ApplyMergesBelow(_, _, _)
ApplyMergesBelow(history, currentClusters, threshold) ==
  IF history = <<>> THEN currentClusters
  ELSE ApplyMergesBelow(Tail(history),
                        IF RLt(Head(history).distance, threshold)
                        THEN ApplyMerge(currentClusters, Head(history))
                        ELSE currentClusters,
                        threshold)

\* The loop of lines 271-281.
RECURSIVE ApplyMerges(_, _, _)
ApplyMerges(history, currentClusters, threshold) ==
  IF history = <<>> THEN currentClusters
  ELSE ApplyMerges(Tail(history),
                   IF RLe(Head(history).distance, threshold)
                   THEN ApplyMerge(currentClusters, Head(history))
                   ELSE currentClusters,
                   threshold)

generateSuggestedClusters(history, cardIds, cardLabels) ==
  [t \in DOMAIN thresholds |->
     LET currentClusters ==
           ApplyMerges(history,
                       [k \in DOMAIN cardIds |->
                          [id |-> cardIds[k], items |-> <<cardIds[k]>>]],
                       thresholds[t])
     IN [threshold |-> thresholds[t],
         clusters |->
           [i \in DOMAIN currentClusters |->
              [id |-> currentClusters[i].id,
               name |-> <<"Cluster", i>>,
               cardIds |-> currentClusters[i].items,
               cardLabels |->
                 [k \in DOMAIN currentClusters[i].items |->
                    LabelOf(currentClusters[i].items[k], cardIds, cardLabels)]]]]]

\* Lines 137-141: every card is its own cluster.
InitialClusters(sm) ==
  [i \in DOMAIN sm.cardIds |->
     [id |-> sm.cardIds[i], items |-> <<sm.cardIds[i]>>, distance |-> Num(0)]]

\* Lines 132-134 and 144: the distances 1 - similarity.
DistanceMatrix(sm) ==
  [i \in DOMAIN sm.matrix |->
     [j \in DOMAIN sm.matrix[i] |-> RSub(Num(1), sm.matrix[i][j])]]

\* The clusters and the merge history the while loop ends with.
Clustering(sm, clock) ==
  Agglomerate(InitialClusters(sm), DistanceMatrix(sm), <<>>, clock)

\* Lines 217-226: the result built from what the while loop ended with.
ClusterAnalysisOf(final, sm) ==
  LET root == buildDendrogramTree(
                IF Len(final.clusters) >= 1 THEN final.clusters[1] ELSE Undefined,
                sm.cardIds, sm.cardLabels)
  IN IF root = TypeError THEN TypeError
     ELSE [root |-> root,
           suggestedClusters |->
             generateSuggestedClusters(final.mergeHistory, sm.cardIds,
                                       sm.cardLabels)]

computeHierarchicalClustering(sm, clock) ==
  ClusterAnalysisOf(Clustering(sm, clock), sm)

(***************************************************************************)
(* normalizeCategory: name.toLowerCase().trim().replace(/[^a-z0-9\s]/g,'') *)
(* on names given as sequences of characters.                              *)
(***************************************************************************)
UpperCase == <<"A", "B", "C", "D", "E", "F", "G", "H", "I", "J", "K", "L", "M",
               "N", "O", "P", "Q", "R", "S", "T", "U", "V", "W", "X", "Y", "Z">>
LowerCase == <<"a", "b", "c", "d", "e", "f", "g", "h", "i", "j", "k", "l", "m",
               "n", "o", "p", "q", "r", "s", "t", "u", "v", "w", "x", "y", "z">>
Digits == {"0", "1", "2", "3", "4", "5", "6", "7", "8", "9"}
WhiteSpace == {" ", "\t", "\n"}

toLowerCase(name) ==
  [k \in DOMAIN name |->
     IF IndexOf(UpperCase, name[k]) # 0
     THEN LowerCase[IndexOf(UpperCase, name[k])]
     ELSE name[k]]

trim(name) ==
  LET inner == {k \in DOMAIN name : name[k] \notin WhiteSpace}
  IN IF inner = {} THEN <<>>
     ELSE LET lo == CHOOSE k \in inner : \A l \in inner : k <= l
              hi == CHOOSE k \in inner : \A l \in inner : l <= k
          IN SubSeq(name, lo, hi)

\* replace(/[^a-z0-9\s]/g, '')
StripOthers(name) ==
  SelectSeq(name, LAMBDA ch :
    \/ IndexOf(LowerCase, ch) # 0
    \/ ch \in Digits
    \/ ch \in WhiteSpace)

normalizeCategory(name) == StripOthers(trim(toLowerCase(name)))

(***************************************************************************)
(* analyzeCardPlacements                                                   *)
(***************************************************************************)
Unplaced == <<"U", "n", "p", "l", "a", "c", "e", "d">>

\* As FindPlacement, but the first placement of the session is taken when
\* none is of the card.
FindPlacementOrFirst(session, id) ==
  LET pl == session.placements
      hits == {k \in DOMAIN pl : pl[k].cardId = id}
  IN IF pl = <<>> THEN Undefined
     ELSE IF hits = {} THEN pl[1]
     ELSE pl[CHOOSE k \in hits : \A l \in hits : k <= l]

\* session.placements.find(p => p.cardId === id): the first one, or Undefined.
FindPlacement(session, id) ==
  LET pl == session.placements
      hits == {k \in DOMAIN pl : pl[k].cardId = id}
  IN IF hits = {} THEN Undefined
     ELSE pl[CHOOSE k \in hits : \A l \in hits : k <= l]

\* As Tally, but totalPlacements is incremented for every session.
RECURSIVE TallyEverySession(_, _, _)
TallyEverySession(ss, id, acc) ==
  IF ss = <<>> THEN acc
  ELSE
    LET placement == FindPlacement(Head(ss), id)
        counted == [acc EXCEPT !.totalPlacements = @ + 1]
    IN IF placement = Undefined THEN TallyEverySession(Tail(ss), id, counted)
       ELSE
         LET categoryName == normalizeCategory(placement.categoryName)
             map == acc.placements
             at == {k \in DOMAIN map : map[k].categoryName = categoryName}
         IN TallyEverySession(Tail(ss), id,
              [placements |->
                 IF at = {}
                 THEN Append(map, [categoryName |-> categoryName, count |-> 1])
                 ELSE [k \in DOMAIN map |->
                         IF k \in at
                         THEN [map[k] EXCEPT !.count = @ + 1]
                         ELSE map[k]],
               totalPlacements |-> counted.totalPlacements])

\* The loop of lines 382-389 over the sessions ss: acc.placements is the Map
\* categoryName -> count as its entries in insertion order, acc.totalPlacements
\* the counter.
RECURSIVE Tally(_, _, _)
Tally(ss, id, acc) ==
  IF ss = <<>> THEN acc
  ELSE
    LET placement == FindPlacement(Head(ss), id)
    IN IF placement = Undefined THEN Tally(Tail(ss), id, acc)
       ELSE
         LET categoryName == normalizeCategory(placement.categoryName)
             map == acc.placements
             at == {k \in DOMAIN map : map[k].categoryName = categoryName}
         IN Tally(Tail(ss), id,
              [placements |->
                 IF at = {}
                 THEN Append(map, [categoryName |-> categoryName, count |-> 1])
                 ELSE [k \in DOMAIN map |->
                         IF k \in at
                         THEN [map[k] EXCEPT !.count = @ + 1]
                         ELSE map[k]],
               totalPlacements |-> acc.totalPlacements + 1])

\* As SortByCountDesc, but the entries are left in insertion order.
SortByCountAsIs(entries) == entries

\* sort((a, b) => b.count - a.count): descending by count, stable.
SortByCountDesc(entries) ==
  LET rank(k) ==
        Cardinality({l \in DOMAIN entries : entries[l].count > entries[k].count})
        + Cardinality({l \in 1..(k - 1) : entries[l].count = entries[k].count})
        + 1
  IN [r \in DOMAIN entries |->
        entries[CHOOSE k \in DOMAIN entries : rank(k) = r]]

\* Lines 400 and 408: x || fallback for a number and for a string.
OrNumber(x, fallback) == IF x = Num(0) \/ IsNaN(x) THEN fallback ELSE x
OrString(x, fallback) == IF x = <<>> THEN fallback ELSE x

CardSummary(ss, card) ==
  LET final == Tally(ss, card.id, [placements |-> <<>>, totalPlacements |-> 0])
      tally == final.placements
      totalPlacements == final.totalPlacements
      placementArray ==
        SortByCountDesc(
          [k \in DOMAIN tally |->
             [categoryName |-> tally[k].categoryName,
              count |-> tally[k].count,
              percentage |->
                IF totalPlacements > 0
                THEN RMul(RDiv(Num(tally[k].count), Num(totalPlacements)),
                          Num(100))
                ELSE Num(0)]])
      maxPercentage ==
        IF placementArray = <<>> THEN Num(0)
        ELSE OrNumber(placementArray[1].percentage, Num(0))
  IN [cardId |-> card.id,
      cardLabel |-> card.label,
      placements |-> placementArray,
      agreementScore |-> RDiv(maxPercentage, Num(100)),
      primaryCategory |->
        IF placementArray = <<>> THEN Unplaced
        ELSE OrString(placementArray[1].categoryName, Unplaced)]

analyzeCardPlacements(ss, cs) == [i \in DOMAIN cs |-> CardSummary(ss, cs[i])]

(***************************************************************************)
(* getSimilarityCells and generateInsights                                 *)
(***************************************************************************)
\* Math.round of a finite number: the nearest integer, halves rounded up.
MathRound(a) ==
  IF a[2] = 0 THEN a ELSE Num((2 * a[1] + a[2]) \div (2 * a[2]))

\* As SortBySimilarityDesc, but the cells are left in row-major order.
SortBySimilarityAsIs(cells) == cells

\* sort((a, b) => b.similarity - a.similarity): descending, stable.
SortBySimilarityDesc(cells) ==
  LET rank(k) ==
        Cardinality({l \in DOMAIN cells :
                       RLt(cells[k].similarity, cells[l].similarity)})
        + Cardinality({l \in 1..(k - 1) :
                         cells[l].similarity = cells[k].similarity})
        + 1
  IN [r \in DOMAIN cells |-> cells[CHOOSE k \in DOMAIN cells : rank(k) = r]]

\* The pairs i < j of 1..n in row-major order.
RECURSIVE PairsFrom(_, _, _)
PairsFrom(n, i, j) ==
  IF i > n THEN <<>>
  ELSE IF j > n THEN PairsFrom(n, i + 1, i + 2)
  ELSE <<<<i, j>>>> \o PairsFrom(n, i, j + 1)

getSimilarityCells(sm) ==
  LET pairs == PairsFrom(Len(sm.cardIds), 1, 2)
  IN SortBySimilarityDesc(
       [k \in DOMAIN pairs |->
          LET i == pairs[k][1]
              j == pairs[k][2]
          IN [cardA |-> [id |-> sm.cardIds[i], label |-> sm.cardLabels[i]],
              cardB |-> [id |-> sm.cardIds[j], label |-> sm.cardLabels[j]],
              coOccurrences |->
                MathRound(RMul(sm.matrix[i][j], Num(sm.participantCount))),
              totalPairings |-> sm.participantCount,
              similarity |-> sm.matrix[i][j]]])

\* As Slice, but nothing is cut off.
SliceAll(s, n) == s

\* The first n elements of a sequence: slice(0, n).
Slice(s, n) == SubSeq(s, 1, IF Len(s) < n THEN Len(s) ELSE n)

\* As ConsensusCards, with agreementScore > 0.9.
ConsensusCardsAbove(summaries) ==
  SelectSeq(summaries, LAMBDA c : RLt(Rat(9, 10), c.agreementScore))

\* Line 448: cardSummaries.filter(c => c.agreementScore >= 0.9).
ConsensusCards(summaries) ==
  SelectSeq(summaries, LAMBDA c : RLe(Rat(9, 10), c.agreementScore))

\* Messages are modelled by the values the template strings interpolate.
generateInsights(sm, summaries) ==
  LET cells == getSimilarityCells(sm)
      strongPairs ==
        SelectSeq(cells, LAMBDA c : RLe(Rat(8, 10), c.similarity))
      strong ==
        IF Len(strongPairs) > 0
        THEN <<[type |-> "strong_cluster",
                message |-> <<strongPairs[1].cardA.label,
                              strongPairs[1].cardB.label,
                              MathRound(RMul(strongPairs[1].similarity,
                                             Num(100)))>>,
                relatedCards |-> <<strongPairs[1].cardA.id,
                                   strongPairs[1].cardB.id>>,
                confidence |-> strongPairs[1].similarity]>>
        ELSE <<>>
      ambiguousCards ==
        Slice(SelectSeq(summaries,
                        LAMBDA c : RLt(c.agreementScore, Rat(4, 10))), 2)
      ambiguous ==
        [k \in DOMAIN ambiguousCards |->
           [type |-> "ambiguous_card",
            message |-> <<ambiguousCards[k].cardLabel,
                          MathRound(RMul(ambiguousCards[k].agreementScore,
                                         Num(100)))>>,
            relatedCards |-> <<ambiguousCards[k].cardId>>,
            confidence |-> RSub(Num(1), ambiguousCards[k].agreementScore)]]
      consensusCards == ConsensusCards(summaries)
      consensus ==
        IF Len(consensusCards) >= 3
        THEN <<[type |-> "consensus",
                message |-> <<Len(consensusCards)>>,
                relatedCards |->
                  [k \in DOMAIN consensusCards |-> consensusCards[k].cardId],
                confidence |-> Rat(9, 10)]>>
        ELSE <<>>
  IN strong \o ambiguous \o consensus

(***************************************************************************)
(* analyzeCategoryUsage                                                    *)
(***************************************************************************)
RECURSIVE Flatten(_)
Flatten(ss) == IF ss = <<>> THEN <<>> ELSE Head(ss) \o Flatten(Tail(ss))

\* The distinct elements of a sequence in order of first occurrence: the
\* iteration order of a Set or of a Map's keys.
InsertionOrder(s) ==
  LET first == {k \in DOMAIN s : \A l \in 1..(k - 1) : s[l] # s[k]}
      order == Ascending(first)
  IN [k \in DOMAIN order |-> s[order[k]]]

Occurrences(s, x) == Cardinality({k \in DOMAIN s : s[k] = x})

\* sort((a, b) => b.frequency - a.frequency): descending, stable.
SortByFrequencyDesc(entries) ==
  LET rank(k) ==
        Cardinality({l \in DOMAIN entries :
                       entries[l].frequency > entries[k].frequency})
        + Cardinality({l \in 1..(k - 1) :
                         entries[l].frequency = entries[k].frequency})
        + 1
  IN [r \in DOMAIN entries |->
        entries[CHOOSE k \in DOMAIN entries : rank(k) = r]]

\* Lines 342-346: the label of the card in the first session that has it.
CardLabelIn(ss, cardId) ==
  LET has == {k \in DOMAIN ss :
                \E c \in DOMAIN ss[k].cards : ss[k].cards[c].id = cardId}
  IN IF has = {} THEN cardId
     ELSE LET session == ss[CHOOSE k \in has : \A l \in has : k <= l]
              at == {c \in DOMAIN session.cards : session.cards[c].id = cardId}
          IN session.cards[CHOOSE c \in at : \A d \in at : c <= d].label

\* The cardIds line 332 counts over the visits of one normalized name, in
\* order.
CountedCards(group) ==
  Flatten([v \in DOMAIN group |->
             LET placements ==
                   SelectSeq(group[v].session.placements,
                             LAMBDA pl : pl.categoryId = group[v].category.id)
             IN [k \in DOMAIN placements |-> placements[k].cardId]])

\* Lines 340-352: the five most frequent cards of a name, given the cardIds
\* counted for it and the name's frequency.
TopCards(ss, counted, frequency) ==
  LET ids == InsertionOrder(counted)
  IN Slice(SortByFrequencyDesc(
             [k \in DOMAIN ids |->
                LET count == Occurrences(counted, ids[k])
                IN [cardId |-> ids[k],
                    cardLabel |-> CardLabelIn(ss, ids[k]),
                    frequency |-> count,
                    percentage |->
                      RMul(RDiv(Num(count), Num(frequency)), Num(100))]]), 5)

analyzeCategoryUsage(ss) ==
  LET \* every (session, category) the loops of lines 312-313 visit, in order
      visits ==
        Flatten([k \in DOMAIN ss |->
                   [c \in DOMAIN ss[k].categories |->
                      [session |-> ss[k],
                       category |-> ss[k].categories[c],
                       normalizedName |->
                         normalizeCategory(ss[k].categories[c].name)]]])
      names == InsertionOrder([v \in DOMAIN visits |-> visits[v].normalizedName])
  IN [standardizedCategories |->
        SortByFrequencyDesc(
          [k \in DOMAIN names |->
             LET group == SelectSeq(visits,
                                    LAMBDA v : v.normalizedName = names[k])
             IN [name |-> names[k],
                 originalNames |->
                   InsertionOrder([v \in DOMAIN group |->
                                     group[v].category.name]),
                 frequency |-> Len(group),
                 topCards |-> TopCards(ss, CountedCards(group), Len(group))]])]

(***************************************************************************)
(* runFullAnalysis. clock holds what Date.now() returns: one reading per   *)
(* merge of the clustering, then the one of analyzedAt. A TypeError thrown *)
(* by computeHierarchicalClustering is not caught and ends the call.       *)
(***************************************************************************)
\* As CompletedSessions, without the filter.
CompletedSessionsAll(ss) == ss

\* Line 471: sessions.filter(s => s.participant.completedAt !== null).
CompletedSessions(ss) ==
  SelectSeq(ss, LAMBDA s : s.participant.completedAt # Null)

\* As Durations, with a null duration counted as 0.
DurationsOrZero(completedSessions) ==
  [k \in DOMAIN completedSessions |->
     IF completedSessions[k].participant.duration = Null THEN Num(0)
     ELSE Num(completedSessions[k].participant.duration)]

\* Lines 479-481: the durations of the sessions that are not null.
Durations(completedSessions) ==
  LET withDuration ==
        SelectSeq(completedSessions, LAMBDA s : s.participant.duration # Null)
  IN [k \in DOMAIN withDuration |-> Num(withDuration[k].participant.duration)]

runFullAnalysis(studyId, studyName, ss, cs, clock) ==
  LET completedSessions == CompletedSessions(ss)
      sm == computeSimilarityMatrix(completedSessions, cs)
      cluster == computeHierarchicalClustering(sm, clock)
      categoryAnalysis == analyzeCategoryUsage(completedSessions)
      summaries == analyzeCardPlacements(completedSessions, cs)
      durations == Durations(completedSessions)
      averageDuration ==
        IF Len(durations) > 0
        THEN RDiv(RSum(durations), Num(Len(durations)))
        ELSE Num(0)
  IN IF cluster = TypeError THEN TypeError
     ELSE [studyId |-> studyId,
           studyName |-> studyName,
           analyzedAt |-> clock[Len(clock)],
           participantCount |-> Len(completedSessions),
           completionRate |->
             IF Len(ss) > 0
             THEN RDiv(Num(Len(completedSessions)), Num(Len(ss)))
             ELSE Num(0),
           averageDuration |-> averageDuration,
           similarityMatrix |-> sm,
           clusterAnalysis |-> cluster,
           categoryAnalysis |-> categoryAnalysis,
           cardSummaries |-> summaries,
           insights |-> generateInsights(sm, summaries)]

(***************************************************************************)
(* The calls. Every behaviour is one call on the inputs Init chose, or     *)
(* computeSimilarityMatrix followed by computeHierarchicalClustering on    *)
(* the matrix it returned.                                                 *)
(***************************************************************************)
\* What Date.now() may return over k successive calls.
Clocks(k) ==
  {clock \in [1..k -> 0..MaxTime] :
     \A a \in 1..k, b \in 1..k : a <= b => clock[a] <= clock[b]}

Merges(n) == IF n > 1 THEN n - 1 ELSE 0

ComputeSimilarityMatrix ==
  /\ pc = "idle"
  /\ similarityMatrix' = computeSimilarityMatrix(sessions, cards)
  /\ pc' = "matrix"
  /\ UNCHANGED <<storeVars, apiVars, cards, sessions, clusterAnalysis, cardSummaries, analysisResults,
               insights, loopVars>>

ComputeHierarchicalClustering ==
  /\ pc = "matrix"
  /\ \E clock \in Clocks(Merges(Len(similarityMatrix.cardIds))) :
       clusterAnalysis' = computeHierarchicalClustering(similarityMatrix, clock)
  /\ pc' = "clustered"
  /\ UNCHANGED <<storeVars, apiVars, cards, sessions, similarityMatrix, cardSummaries, analysisResults,
               insights, loopVars>>

AnalyzeCardPlacements ==
  /\ pc = "idle"
  /\ cardSummaries' = analyzeCardPlacements(sessions, cards)
  /\ pc' = "summarized"
  /\ UNCHANGED <<storeVars, apiVars, cards, sessions, similarityMatrix, clusterAnalysis, analysisResults,
               insights, loopVars>>

RunFullAnalysis ==
  /\ pc = "idle"
  /\ \E clock \in Clocks(Merges(Len(cards)) + 1) :
       analysisResults' = runFullAnalysis("study", "Study", sessions, cards, clock)
  /\ pc' = "analyzed"
  /\ UNCHANGED <<storeVars, apiVars, cards, sessions, similarityMatrix, clusterAnalysis, cardSummaries,
               insights, loopVars>>

Init ==
  /\ cards \in CardLists
  /\ sessions \in SessionsOver({Completed}, cards, 1..MaxCards)
  /\ similarityMatrix = None
  /\ clusterAnalysis = None
  /\ cardSummaries = None
  /\ analysisResults = None
  /\ insights = None
  /\ clusters = None
  /\ currentDist = None
  /\ mergeHistory = None
  /\ sharesMatrix = FALSE
  /\ StoreInitial
  /\ DatabaseEmpty
  /\ pc = "idle"

Next ==
  \/ ComputeSimilarityMatrix
  \/ ComputeHierarchicalClustering
  \/ AnalyzeCardPlacements

Spec == Init /\ [][Next]_vars

(***************************************************************************)
(* runFullAnalysis on the sessions of a study, completed and abandoned,    *)
(* that place the study's cards.                                           *)
(***************************************************************************)
InitFull ==
  /\ cards \in CardLists
  /\ sessions \in SessionsOver({Completed, Abandoned}, cards, 1..Len(cards))
  /\ similarityMatrix = None
  /\ clusterAnalysis = None
  /\ cardSummaries = None
  /\ analysisResults = None
  /\ insights = None
  /\ clusters = None
  /\ currentDist = None
  /\ mergeHistory = None
  /\ sharesMatrix = FALSE
  /\ StoreInitial
  /\ DatabaseEmpty
  /\ pc = "idle"

NextFull == RunFullAnalysis

SpecFull == InitFull /\ [][NextFull]_vars

(***************************************************************************)
(* Clustering of any similarity matrix: symmetric, 1 on the diagonal, the  *)
(* other cells among SimilarityLevels.                                     *)
(***************************************************************************)
SimilarityLevels == {Rat(0, 1), Rat(1, 3), Rat(2, 3), Rat(1, 1)}

UpperCells(n) == {<<i, j>> \in (1..n) \X (1..n) : i < j}

\* The matrix of n cards with the cells upper above the diagonal.
SimilarityMatrixOf(n, upper) ==
  [cardIds |-> [i \in 1..n |-> Card(i).id],
   cardLabels |-> [i \in 1..n |-> Card(i).label],
   matrix |-> [i \in 1..n |-> [j \in 1..n |->
                 IF i = j THEN Num(1)
                 ELSE IF i < j THEN upper[<<i, j>>] ELSE upper[<<j, i>>]]],
   participantCount |-> 3]

InitCluster ==
  /\ cards = <<>>
  /\ sessions = <<>>
  /\ \E n \in 0..MaxClusterCards :
       \E upper \in [UpperCells(n) -> SimilarityLevels] :
         similarityMatrix = SimilarityMatrixOf(n, upper)
  /\ clusterAnalysis = None
  /\ cardSummaries = None
  /\ analysisResults = None
  /\ insights = None
  /\ clusters = None
  /\ currentDist = None
  /\ mergeHistory = None
  /\ sharesMatrix = FALSE
  /\ StoreInitial
  /\ DatabaseEmpty
  /\ pc = "matrix"

NextCluster == ComputeHierarchicalClustering

SpecCluster == InitCluster /\ [][NextCluster]_vars

(***************************************************************************)
(* computeSimilarityMatrix on sessions that have two categories of one     *)
(* name.                                                                   *)
(***************************************************************************)
\* The placements of the cards ids in the categories of a table.
PlacementsIn(table, ids) ==
  {[cardId |-> c, categoryId |-> table[k].id, categoryName |-> table[k].name] :
     c \in ids, k \in DOMAIN table}

\* As SessionsOver, for the categories of a table and at most n sessions.
SessionsIn(table, P, cs, ids, n) ==
  SeqsUpTo({[cards |-> cs,
             categories |-> table,
             placements |-> pl,
             participant |-> pa] :
              pl \in SeqsUpTo(PlacementsIn(table, ids), MaxPlacements),
              pa \in P},
           n)

\* CategoryTable and a third category with the name of the first.
CategoryTableSameName ==
  CategoryTable \o <<[id |-> "k3", name |-> <<"A", "b">>]>>

InitCategories ==
  /\ cards \in {cs \in CardLists : Len(cs) <= 2}
  /\ sessions \in SessionsIn(CategoryTableSameName, {Completed}, cards,
                              1..Len(cards), MaxSessions)
  /\ similarityMatrix = None
  /\ clusterAnalysis = None
  /\ cardSummaries = None
  /\ analysisResults = None
  /\ insights = None
  /\ clusters = None
  /\ currentDist = None
  /\ mergeHistory = None
  /\ sharesMatrix = FALSE
  /\ StoreInitial
  /\ DatabaseEmpty
  /\ pc = "idle"

NextCategories == ComputeSimilarityMatrix

SpecCategories == InitCategories /\ [][NextCategories]_vars

(***************************************************************************)
(* analyzeCardPlacements on up to MaxTallySessions sessions that place the *)
(* first card of the study in categories whose names differ in case,       *)
(* punctuation and whitespace.                                             *)
(***************************************************************************)
CategoryTableNames ==
  << [id |-> "k1", name |-> <<"A", "b">>],
     [id |-> "k2", name |-> <<"a", "b", "!">>],
     [id |-> "k3", name |-> <<"-", " ", "a", "b">>] >>

InitTally ==
  /\ cards \in {cs \in CardLists : Len(cs) <= 2}
  /\ sessions \in SessionsIn(CategoryTableNames, {Completed}, cards,
                              {c \in {1} : c <= Len(cards)}, MaxTallySessions)
  /\ similarityMatrix = None
  /\ clusterAnalysis = None
  /\ cardSummaries = None
  /\ analysisResults = None
  /\ insights = None
  /\ clusters = None
  /\ currentDist = None
  /\ mergeHistory = None
  /\ sharesMatrix = FALSE
  /\ StoreInitial
  /\ DatabaseEmpty
  /\ pc = "idle"

NextTally == AnalyzeCardPlacements

SpecTally == InitTally /\ [][NextTally]_vars

(***************************************************************************)
(* computeHierarchicalClustering step by step, on the matrices of          *)
(* InitCluster: the initialisation, one action per iteration of the while  *)
(* loop, and the construction of the result.                               *)
(***************************************************************************)
\* As MapReturnsReceiver, for a map() that wrote into the array it was
\* called on and returned it.
MapReturnsReceiverYes == TRUE

\* Whether Array.prototype.map returns the array it was called on: it
\* returns a new array (lines 132-134 and 144).
MapReturnsReceiver == FALSE

\* Lines 128-147. currentDist is matrix.map(...).map(...): it is the array
\* similarityMatrix.matrix, then holding the distances, only if map returned
\* its receiver.
StartClustering ==
  /\ pc = "matrix"
  /\ clusters' = InitialClusters(similarityMatrix)
  /\ currentDist' = DistanceMatrix(similarityMatrix)
  /\ mergeHistory' = <<>>
  /\ sharesMatrix' = MapReturnsReceiver
  /\ similarityMatrix' =
       IF MapReturnsReceiver
       THEN [similarityMatrix EXCEPT !.matrix = DistanceMatrix(similarityMatrix)]
       ELSE similarityMatrix
  /\ pc' = "merging"
  /\ UNCHANGED <<storeVars, apiVars, cards, sessions, clusterAnalysis, cardSummaries,
                 analysisResults, insights>>

\* What Date.now() may return after the readings the merge ids hold.
Now ==
  {t \in 0..MaxTime :
     mergeHistory # <<>> =>
       mergeHistory[Len(mergeHistory)].newCluster.id[3] <= t}

MergeStep ==
  /\ pc = "merging"
  /\ Len(clusters) > 1
  /\ \E now \in Now :
       LET next == MergeOnce(clusters, currentDist, mergeHistory, now)
       IN /\ clusters' = next.clusters
          /\ currentDist' = next.currentDist
          /\ mergeHistory' = next.mergeHistory
          \* lines 212-213 write into the array currentDist
          /\ similarityMatrix' =
               IF sharesMatrix
               THEN [similarityMatrix EXCEPT !.matrix = next.currentDist]
               ELSE similarityMatrix
  /\ UNCHANGED <<storeVars, apiVars, cards, sessions, clusterAnalysis, cardSummaries,
                 analysisResults, insights, sharesMatrix, pc>>

FinishClustering ==
  /\ pc = "merging"
  /\ Len(clusters) <= 1
  /\ clusterAnalysis' =
       ClusterAnalysisOf([clusters |-> clusters, mergeHistory |-> mergeHistory],
                         similarityMatrix)
  /\ pc' = "clustered"
  /\ UNCHANGED <<storeVars, apiVars, cards, sessions, similarityMatrix, cardSummaries,
                 analysisResults, insights, loopVars>>

NextLoop ==
  \/ StartClustering
  \/ MergeStep
  \/ FinishClustering

SpecLoop == InitCluster /\ [][NextLoop]_vars

(***************************************************************************)
(* runFullAnalysis on sessions whose participants have any combination of  *)
(* completedAt and duration, for a study of at most one card.              *)
(***************************************************************************)
Participants ==
  {[completedAt |-> c, duration |-> d] : c \in {Null, 1}, d \in {Null, 2, 4}}

InitRates ==
  /\ cards \in {cs \in CardLists : Len(cs) <= 1}
  /\ sessions \in SessionsOver(Participants, cards, 1..Len(cards))
  /\ similarityMatrix = None
  /\ clusterAnalysis = None
  /\ cardSummaries = None
  /\ analysisResults = None
  /\ insights = None
  /\ clusters = None
  /\ currentDist = None
  /\ mergeHistory = None
  /\ sharesMatrix = FALSE
  /\ StoreInitial
  /\ DatabaseEmpty
  /\ pc = "idle"

NextRates == RunFullAnalysis

SpecRates == InitRates /\ [][NextRates]_vars

(***************************************************************************)
(* generateInsights on any similarity matrix with cells among              *)
(* InsightSimilarities and any summaries with agreement scores among       *)
(* AgreementScores, for the same cards.                                    *)
(***************************************************************************)
InsightSimilarities == {Rat(0, 1), Rat(3, 4), Rat(4, 5), Rat(1, 1)}
AgreementScores == {Rat(0, 1), Rat(3, 10), Rat(2, 5), Rat(9, 10), Rat(1, 1)}

\* The fields of a CardPlacementSummary that generateInsights reads.
SummaryOf(i, score) ==
  [cardId |-> Card(i).id, cardLabel |-> Card(i).label, agreementScore |-> score]

GenerateInsights ==
  /\ pc = "ready"
  /\ insights' = generateInsights(similarityMatrix, cardSummaries)
  /\ pc' = "insights"
  /\ UNCHANGED <<storeVars, apiVars, cards, sessions, similarityMatrix, clusterAnalysis,
                 cardSummaries, analysisResults, loopVars>>

InitInsights ==
  /\ \E n \in 0..MaxInsightCards :
       /\ cards = [i \in 1..n |-> Card(i)]
       /\ \E upper \in [UpperCells(n) -> InsightSimilarities] :
            similarityMatrix = SimilarityMatrixOf(n, upper)
       /\ \E score \in [1..n -> AgreementScores] :
            cardSummaries = [i \in 1..n |-> SummaryOf(i, score[i])]
  /\ sessions = <<>>
  /\ clusterAnalysis = None
  /\ analysisResults = None
  /\ insights = None
  /\ clusters = None
  /\ currentDist = None
  /\ mergeHistory = None
  /\ sharesMatrix = FALSE
  /\ StoreInitial
  /\ DatabaseEmpty
  /\ pc = "ready"

NextInsights == GenerateInsights

SpecInsights == InitInsights /\ [][NextInsights]_vars

(***************************************************************************)
(* computeHierarchicalClustering, step by step, or generateInsights on one *)
(* of the matrices and summaries of InitInsights.                          *)
(***************************************************************************)
InitFrame ==
  /\ \E n \in 0..MaxInsightCards :
       /\ cards = [i \in 1..n |-> Card(i)]
       /\ \E upper \in [UpperCells(n) -> InsightSimilarities] :
            similarityMatrix = SimilarityMatrixOf(n, upper)
       /\ \E score \in [1..n -> {Rat(3, 10), Rat(9, 10)}] :
            cardSummaries = [i \in 1..n |-> SummaryOf(i, score[i])]
  /\ sessions = <<>>
  /\ clusterAnalysis = None
  /\ analysisResults = None
  /\ insights = None
  /\ clusters = None
  /\ currentDist = None
  /\ mergeHistory = None
  /\ sharesMatrix = FALSE
  /\ StoreInitial
  /\ DatabaseEmpty
  /\ pc \in {"matrix", "ready"}

NextFrame ==
  \/ StartClustering
  \/ MergeStep
  \/ FinishClustering
  \/ GenerateInsights

SpecFrame == InitFrame /\ [][NextFrame]_vars

(***************************************************************************)
(* Properties.                                                             *)
(***************************************************************************)
Range(s) == {s[k] : k \in DOMAIN s}

\* The cards a cut holds, as (cluster, position) slots.
CutSlots(cut) ==
  UNION {{<<c, k>> : k \in DOMAIN cut.clusters[c].cardIds} :
           c \in DOMAIN cut.clusters}

Clustered == pc = "clustered" /\ clusterAnalysis # TypeError

\* C1: when computeHierarchicalClustering has returned for n >= 1 cards, in
\* each of the three cuts every input card id is in the cardIds of exactly one
\* cluster, once, and the clusters hold no other id.
C1_CutPartition ==
  (pc = "clustered" /\ Len(similarityMatrix.cardIds) >= 1) =>
    /\ clusterAnalysis # TypeError
    /\ DOMAIN clusterAnalysis.suggestedClusters = DOMAIN thresholds
    /\ \A t \in DOMAIN thresholds :
         LET cut == clusterAnalysis.suggestedClusters[t]
         IN /\ cut.threshold = thresholds[t]
            /\ \A id \in Range(similarityMatrix.cardIds) :
                 Cardinality({sl \in CutSlots(cut) :
                    cut.clusters[sl[1]].cardIds[sl[2]] = id}) = 1
            /\ \A sl \in CutSlots(cut) :
                 cut.clusters[sl[1]].cardIds[sl[2]]
                   \in Range(similarityMatrix.cardIds)

\* A cut of four or more cards that has both a merged cluster and a second
\* cluster.
C1_Witness ==
  /\ Clustered
  /\ Len(similarityMatrix.cardIds) >= 4
  /\ \E t \in DOMAIN thresholds :
       LET cut == clusterAnalysis.suggestedClusters[t]
       IN /\ Len(cut.clusters) >= 2
          /\ \E c \in DOMAIN cut.clusters : Len(cut.clusters[c].cardIds) >= 2

\* The cardIds of the leaves under a dendrogram node, left to right.
RECURSIVE Leaves(_)
Leaves(node) ==
  IF "children" \notin DOMAIN node THEN <<node.cardId>>
  ELSE IF Len(node.children) = 0 THEN <<>>
  ELSE IF Len(node.children) = 1 THEN Leaves(node.children[1])
  ELSE Leaves(node.children[1]) \o Leaves(node.children[2])

\* The internal nodes under (and including) a dendrogram node.
RECURSIVE InternalNodes(_)
InternalNodes(node) ==
  IF "children" \notin DOMAIN node THEN 0
  ELSE 1 + (IF Len(node.children) >= 1
            THEN InternalNodes(node.children[1]) ELSE 0)
         + (IF Len(node.children) >= 2
            THEN InternalNodes(node.children[2]) ELSE 0)

\* Every internal node under a dendrogram node has exactly two children.
RECURSIVE Binary(_)
Binary(node) ==
  "children" \in DOMAIN node =>
    /\ Len(node.children) = 2
    /\ Binary(node.children[1])
    /\ Binary(node.children[2])

\* C2: for n >= 1 cards the dendrogram root has n leaves carrying the n input
\* card ids once each and n - 1 internal nodes, all with two children; for
\* n = 1 the root is the leaf of the card and no cut holds a merged cluster.
C2_DendrogramComplete ==
  (pc = "clustered" /\ Len(similarityMatrix.cardIds) >= 1) =>
    LET n == Len(similarityMatrix.cardIds)
    IN /\ clusterAnalysis # TypeError
       /\ Binary(clusterAnalysis.root)
       /\ Len(Leaves(clusterAnalysis.root)) = n
       /\ Range(Leaves(clusterAnalysis.root)) = Range(similarityMatrix.cardIds)
       /\ InternalNodes(clusterAnalysis.root) = n - 1
       /\ n = 1 =>
            /\ "children" \notin DOMAIN clusterAnalysis.root
            /\ clusterAnalysis.root.cardId = similarityMatrix.cardIds[1]
            /\ \A t \in DOMAIN thresholds :
                 /\ Len(clusterAnalysis.suggestedClusters[t].clusters) = 1
                 /\ clusterAnalysis.suggestedClusters[t].clusters[1].cardIds
                      = similarityMatrix.cardIds

\* A dendrogram of four cards whose root joins two merged clusters.
C2_Witness ==
  /\ Clustered
  /\ Len(similarityMatrix.cardIds) = 4
  /\ "children" \in DOMAIN clusterAnalysis.root
  /\ "children" \in DOMAIN clusterAnalysis.root.children[1]
  /\ "children" \in DOMAIN clusterAnalysis.root.children[2]

\* C3: the matrix computeSimilarityMatrix returns is square with one row per
\* card, symmetric, and 1 on the diagonal.
C3_SymmetricUnitDiagonal ==
  pc = "matrix" =>
    LET n == Len(cards)
        matrix == similarityMatrix.matrix
    IN /\ Len(similarityMatrix.cardIds) = n
       /\ DOMAIN matrix = 1..n
       /\ \A i \in 1..n : DOMAIN matrix[i] = 1..n
       /\ \A i \in 1..n : matrix[i][i] = Num(1)
       /\ \A i \in 1..n, j \in 1..n : matrix[i][j] = matrix[j][i]

\* A matrix of three cards with an off-diagonal cell that is neither 0 nor 1.
C3_Witness ==
  /\ pc = "matrix"
  /\ Len(cards) = 3
  /\ \E i \in 1..3, j \in 1..3 :
       /\ i # j
       /\ similarityMatrix.matrix[i][j] \notin {Num(0), Num(1)}

\* The session places the card id (at least once).
Places(session, id) ==
  \E k \in DOMAIN session.placements : session.placements[k].cardId = id

\* The session places both cards in one category.
PlacesTogether(session, idA, idB) ==
  \E k \in DOMAIN session.placements, l \in DOMAIN session.placements :
    /\ session.placements[k].cardId = idA
    /\ session.placements[l].cardId = idB
    /\ session.placements[k].categoryId = session.placements[l].categoryId

\* Every session holds at most one placement per card.
OnePlacementPerCard ==
  \A s \in DOMAIN sessions :
    \A k \in DOMAIN sessions[s].placements, l \in DOMAIN sessions[s].placements :
      sessions[s].placements[k].cardId = sessions[s].placements[l].cardId => k = l

\* C4: with at most one placement per card in every session and at least one
\* session, the similarity of two distinct cards is the number of sessions
\* that place both in one category over the number of sessions,
\* participantCount is the number of sessions, and a card no session places
\* has similarity 0 to every other card.
C4_SimilarityIsCoOccurrenceRate ==
  (pc = "matrix" /\ OnePlacementPerCard /\ Len(sessions) >= 1) =>
    /\ similarityMatrix.participantCount = Len(sessions)
    /\ \A i \in DOMAIN cards, j \in DOMAIN cards :
         i # j =>
           /\ similarityMatrix.matrix[i][j] =
                Rat(Cardinality({s \in DOMAIN sessions :
                      PlacesTogether(sessions[s], cards[i].id, cards[j].id)}),
                    Len(sessions))
           /\ (\A s \in DOMAIN sessions : ~Places(sessions[s], cards[i].id)) =>
                similarityMatrix.matrix[i][j] = Num(0)

\* Two sessions of which one places a pair together, with a card that no
\* session places.
C4_Witness ==
  /\ pc = "matrix"
  /\ OnePlacementPerCard
  /\ Len(sessions) = 2
  /\ \E i \in DOMAIN cards, j \in DOMAIN cards :
       i # j /\ similarityMatrix.matrix[i][j] = Rat(1, 2)
  /\ \E i \in DOMAIN cards :
       \A s \in DOMAIN sessions : ~Places(sessions[s], cards[i].id)

\* C5: with at most one placement per card in every session, every cell of
\* the matrix lies in [0, 1].
C5_SimilarityInUnitRange ==
  (pc = "matrix" /\ OnePlacementPerCard) =>
    \A i \in DOMAIN cards, j \in DOMAIN cards :
      /\ RLe(Num(0), similarityMatrix.matrix[i][j])
      /\ RLe(similarityMatrix.matrix[i][j], Num(1))

\* One session places two cards of the study in different categories and
\* another places them together; a third card is placed with neither.
C5_Witness ==
  /\ pc = "matrix"
  /\ OnePlacementPerCard
  /\ \E s \in DOMAIN sessions, i \in DOMAIN cards, j \in DOMAIN cards :
       /\ i # j
       /\ Places(sessions[s], cards[i].id)
       /\ Places(sessions[s], cards[j].id)
       /\ ~PlacesTogether(sessions[s], cards[i].id, cards[j].id)
       /\ similarityMatrix.matrix[i][j] = Rat(1, 2)
       /\ \E k \in DOMAIN cards :
            /\ similarityMatrix.matrix[i][k] = Num(0)
            /\ similarityMatrix.matrix[j][k] = Num(0)

\* C6: with no session, computeSimilarityMatrix returns participantCount 0,
\* 0 in every off-diagonal cell and 1 on the diagonal (no cell is NaN).
C6_NoSessions ==
  (pc = "matrix" /\ sessions = <<>>) =>
    /\ similarityMatrix.participantCount = 0
    /\ \A i \in DOMAIN cards, j \in DOMAIN cards :
         similarityMatrix.matrix[i][j] = (IF i = j THEN Num(1) ELSE Num(0))

\* The matrix of three cards and no session.
C6_Witness ==
  /\ pc = "matrix"
  /\ sessions = <<>>
  /\ Len(cards) = 3
  /\ similarityMatrix.matrix[1][2] = Num(0)

\* C7: with zero cards neither computeHierarchicalClustering nor
\* runFullAnalysis raises an error: the first returns three cuts without
\* clusters, the second a result with an empty matrix and no summaries.
C7_ZeroCardsNoError ==
  /\ (pc = "clustered" /\ Len(similarityMatrix.cardIds) = 0) =>
       /\ clusterAnalysis # TypeError
       /\ \A t \in DOMAIN thresholds :
            clusterAnalysis.suggestedClusters[t].clusters = <<>>
  /\ (pc = "analyzed" /\ Len(cards) = 0) =>
       /\ analysisResults # TypeError
       /\ analysisResults.similarityMatrix.matrix = <<>>
       /\ analysisResults.cardSummaries = <<>>

\* C8: the cut at 0.3 has at least as many clusters as the cut at 0.5, which
\* has at least as many as the cut at 0.7.
C8_CutsMonotone ==
  Clustered =>
    /\ Len(clusterAnalysis.suggestedClusters[1].clusters)
         >= Len(clusterAnalysis.suggestedClusters[2].clusters)
    /\ Len(clusterAnalysis.suggestedClusters[2].clusters)
         >= Len(clusterAnalysis.suggestedClusters[3].clusters)
    /\ clusterAnalysis.suggestedClusters[1].threshold = Rat(3, 10)
    /\ clusterAnalysis.suggestedClusters[2].threshold = Rat(1, 2)
    /\ clusterAnalysis.suggestedClusters[3].threshold = Rat(7, 10)

\* The three cuts have three different numbers of clusters.
C8_Witness ==
  /\ Clustered
  /\ Len(clusterAnalysis.suggestedClusters[1].clusters)
       > Len(clusterAnalysis.suggestedClusters[2].clusters)
  /\ Len(clusterAnalysis.suggestedClusters[2].clusters)
       > Len(clusterAnalysis.suggestedClusters[3].clusters)

\* C9: for every card some session places, the counts of its summary sum to
\* the number of sessions that place it and the percentages sum to 100.
C9_PercentagesSumTo100 ==
  pc = "summarized" =>
    \A i \in DOMAIN cards :
      (\E s \in DOMAIN sessions : Places(sessions[s], cards[i].id)) =>
        LET entries == cardSummaries[i].placements
        IN /\ RSum([k \in DOMAIN entries |-> Num(entries[k].count)])
                = Num(Cardinality({s \in DOMAIN sessions :
                                     Places(sessions[s], cards[i].id)}))
           /\ RSum([k \in DOMAIN entries |-> entries[k].percentage]) = Num(100)
           /\ \A k \in DOMAIN entries :
                entries[k].percentage =
                  Rat(100 * entries[k].count,
                      Cardinality({s \in DOMAIN sessions :
                                     Places(sessions[s], cards[i].id)}))

\* A card with two entries that one session places twice, and a card with
\* an entry that some session does not place.
C9_Witness ==
  /\ pc = "summarized"
  /\ \E i \in DOMAIN cards :
       /\ Len(cardSummaries[i].placements) = 2
       /\ \E s \in DOMAIN sessions :
            Cardinality({k \in DOMAIN sessions[s].placements :
                           sessions[s].placements[k].cardId = cards[i].id}) = 2
  /\ \E i \in DOMAIN cards, s \in DOMAIN sessions :
       /\ cardSummaries[i].placements # <<>>
       /\ ~Places(sessions[s], cards[i].id)

\* C10: a card's primaryCategory is "Unplaced" exactly when no session places
\* the card, and otherwise it is the categoryName of the first entry.
C10_UnplacedIffNoPlacement ==
  pc = "summarized" =>
    \A i \in DOMAIN cards :
      LET placed == \E s \in DOMAIN sessions : Places(sessions[s], cards[i].id)
      IN /\ (cardSummaries[i].primaryCategory = Unplaced) <=> ~placed
         /\ placed =>
              cardSummaries[i].primaryCategory
                = cardSummaries[i].placements[1].categoryName

\* The insights of one type, in the order generateInsights returned them.
InsightsOfType(type) == SelectSeq(insights, LAMBDA x : x.type = type)

\* The pair of cards with the largest similarity, the first in row-major
\* order among those that tie; the matrix has two cards or more.
TopPair(sm) ==
  LET pairs == UpperCells(Len(sm.cardIds))
      before(p, q) == p[1] < q[1] \/ (p[1] = q[1] /\ p[2] <= q[2])
  IN CHOOSE p \in pairs :
       \A q \in pairs :
         \/ RLt(sm.matrix[q[1]][q[2]], sm.matrix[p[1]][p[2]])
         \/ (sm.matrix[q[1]][q[2]] = sm.matrix[p[1]][p[2]] /\ before(p, q))

\* C11: generateInsights emits a strong_cluster insight exactly when the
\* largest off-diagonal similarity is >= 0.8; it then emits one, whose
\* relatedCards are the cards of the first pair in row-major order with that
\* largest similarity and whose confidence is that similarity.
C11_StrongClusterIsTopPair ==
  pc = "insights" =>
    LET sm == similarityMatrix
        pairs == UpperCells(Len(sm.cardIds))
        strong == InsightsOfType("strong_cluster")
    IN /\ Len(strong) <= 1
       /\ Len(strong) = 1 <=>
            \E p \in pairs : RLe(Rat(8, 10), sm.matrix[p[1]][p[2]])
       /\ Len(strong) = 1 =>
            LET top == TopPair(sm)
            IN /\ strong[1].relatedCards
                    = <<sm.cardIds[top[1]], sm.cardIds[top[2]]>>
               /\ strong[1].confidence = sm.matrix[top[1]][top[2]]

\* Three cards: the first pair has similarity 0.8, the other two pairs tie
\* at 1, and the insight names the first of those two.
C11_Witness ==
  /\ pc = "insights"
  /\ Len(similarityMatrix.cardIds) = 3
  /\ similarityMatrix.matrix[1][2] = Rat(8, 10)
  /\ similarityMatrix.matrix[1][3] = Num(1)
  /\ similarityMatrix.matrix[2][3] = Num(1)
  /\ Len(InsightsOfType("strong_cluster")) = 1
  /\ InsightsOfType("strong_cluster")[1].relatedCards
       = <<similarityMatrix.cardIds[1], similarityMatrix.cardIds[3]>>

\* The indices of the first two summaries with agreementScore < 0.4.
FirstTwoAmbiguous ==
  LET low == {i \in DOMAIN cardSummaries :
                RLt(cardSummaries[i].agreementScore, Rat(4, 10))}
  IN {i \in low : Cardinality({j \in low : j < i}) < 2}

\* C12: generateInsights emits one ambiguous_card insight for each of the
\* first two summaries with agreementScore < 0.4, in summary order, and for
\* no other; each names that card alone with confidence 1 - agreementScore,
\* so there are never more than two.
C12_AmbiguousFirstTwo ==
  pc = "insights" =>
    LET ambiguous == InsightsOfType("ambiguous_card")
        order == Ascending(FirstTwoAmbiguous)
    IN /\ Len(ambiguous) <= 2
       /\ Len(ambiguous) = Len(order)
       /\ \A k \in DOMAIN ambiguous :
            /\ ambiguous[k].relatedCards = <<cardSummaries[order[k]].cardId>>
            /\ ambiguous[k].confidence
                 = RSub(Num(1), cardSummaries[order[k]].agreementScore)

\* Three summaries below 0.4, the first two with different scores: the first
\* two get an insight each and the third gets none.
C12_Witness ==
  /\ pc = "insights"
  /\ Len(cardSummaries) = 3
  /\ \A i \in 1..3 : RLt(cardSummaries[i].agreementScore, Rat(4, 10))
  /\ cardSummaries[1].agreementScore # cardSummaries[2].agreementScore
  /\ Len(InsightsOfType("ambiguous_card")) = 2
  /\ InsightsOfType("ambiguous_card")[2].relatedCards
       = <<cardSummaries[2].cardId>>

\* C13: generateInsights emits a consensus insight exactly when at least 3
\* summaries have agreementScore >= 0.9; it then emits one, with confidence
\* 0.9.
C13_ConsensusFromThree ==
  pc = "insights" =>
    LET consensus == InsightsOfType("consensus")
        high == {i \in DOMAIN cardSummaries :
                   RLe(Rat(9, 10), cardSummaries[i].agreementScore)}
    IN /\ Len(consensus) <= 1
       /\ Len(consensus) = 1 <=> Cardinality(high) >= 3
       /\ \A k \in DOMAIN consensus : consensus[k].confidence = Rat(9, 10)

\* Perfect agreement on exactly three cards: every similarity and every
\* agreementScore is 1, and the consensus insight is emitted.
C13_Witness ==
  /\ pc = "insights"
  /\ Len(cardSummaries) = 3
  /\ \A i \in 1..3 : cardSummaries[i].agreementScore = Num(1)
  /\ \A i \in 1..3, j \in 1..3 : similarityMatrix.matrix[i][j] = Num(1)
  /\ Len(InsightsOfType("consensus")) = 1
  /\ InsightsOfType("consensus")[1].confidence = Rat(9, 10)

\* C14: for no session and one card or more, runFullAnalysis returns
\* participantCount 0, completionRate 0, a matrix that is 0 off the diagonal,
\* and no insight.
C14_EmptyStudy ==
  (pc = "analyzed" /\ sessions = <<>> /\ Len(cards) >= 1) =>
    /\ analysisResults # TypeError
    /\ analysisResults.participantCount = 0
    /\ analysisResults.completionRate = Num(0)
    /\ \A i \in DOMAIN cards, j \in DOMAIN cards :
         i # j => analysisResults.similarityMatrix.matrix[i][j] = Num(0)
    /\ analysisResults.insights = <<>>

\* C15: what runFullAnalysis returns is a function of its arguments alone:
\* it is what a call with the same arguments returns whatever Date.now()
\* reads during that call.
C15_Deterministic ==
  pc = "analyzed" =>
    \A clock \in Clocks(Merges(Len(cards)) + 1) :
      analysisResults = runFullAnalysis("study", "Study", sessions, cards, clock)

\* The sessions whose participant completed the sort, in order.
WithoutIncomplete(ss) ==
  LET kept == Ascending({k \in DOMAIN ss : ss[k].participant.completedAt # Null})
  IN [k \in DOMAIN kept |-> ss[kept[k]]]

\* C16: runFullAnalysis returns on a session list what it returns, under the
\* same clock readings, on the list without the sessions whose completedAt is
\* null, in every field but completionRate; participantCount is the number
\* of sessions with a completedAt.
C16_IncompleteSessionsIgnored ==
  (pc = "analyzed" /\ analysisResults # TypeError) =>
    /\ analysisResults.participantCount = Len(WithoutIncomplete(sessions))
    /\ \E clock \in Clocks(Merges(Len(cards)) + 1) :
         LET r == runFullAnalysis("study", "Study", WithoutIncomplete(sessions),
                                  cards, clock)
         IN \A f \in DOMAIN r \ {"completionRate"} : r[f] = analysisResults[f]

\* A completed session that places two cards apart and an abandoned one that
\* places them together: their similarity is 0 and participantCount is 1.
C16_Witness ==
  /\ pc = "analyzed"
  /\ analysisResults # TypeError
  /\ Len(sessions) = 2
  /\ Len(cards) >= 2
  /\ \E a \in 1..2, b \in 1..2 :
       /\ sessions[a].participant.completedAt # Null
       /\ sessions[b].participant.completedAt = Null
       /\ Places(sessions[a], cards[1].id)
       /\ Places(sessions[a], cards[2].id)
       /\ ~PlacesTogether(sessions[a], cards[1].id, cards[2].id)
       /\ PlacesTogether(sessions[b], cards[1].id, cards[2].id)
  /\ analysisResults.participantCount = 1
  /\ analysisResults.similarityMatrix.matrix[1][2] = Num(0)

\* The sessions with a completedAt, and those of them with a duration.
CompletedIn(ss) == {k \in DOMAIN ss : ss[k].participant.completedAt # Null}
TimedIn(ss) == {k \in CompletedIn(ss) : ss[k].participant.duration # Null}

\* The sum of the durations of the sessions of TimedIn.
RECURSIVE TotalDuration(_, _)
TotalDuration(ss, k) ==
  IF k = 0 THEN 0
  ELSE TotalDuration(ss, k - 1)
         + (IF k \in TimedIn(ss) THEN ss[k].participant.duration ELSE 0)

\* C17: completionRate is the number of sessions with a completedAt over the
\* number of sessions, and 0 for no session; averageDuration is the mean of
\* the non-null durations of the sessions with a completedAt, and 0 when
\* there is none.
C17_CompletionRateAndMeanDuration ==
  (pc = "analyzed" /\ analysisResults # TypeError) =>
    /\ analysisResults.completionRate =
         (IF Len(sessions) = 0 THEN Num(0)
          ELSE Rat(Cardinality(CompletedIn(sessions)), Len(sessions)))
    /\ analysisResults.averageDuration =
         (IF TimedIn(sessions) = {} THEN Num(0)
          ELSE Rat(TotalDuration(sessions, Len(sessions)),
                   Cardinality(TimedIn(sessions))))

\* Two completed sessions of which one has no duration: the mean is the
\* duration of the other.
C17_Witness ==
  /\ pc = "analyzed"
  /\ analysisResults # TypeError
  /\ Len(sessions) = 2
  /\ Cardinality(CompletedIn(sessions)) = 2
  /\ Cardinality(TimedIn(sessions)) = 1
  /\ analysisResults.completionRate = Num(1)
  /\ analysisResults.averageDuration = Num(4)

\* The values of the internal nodes under (and including) a dendrogram node.
RECURSIVE NodeValues(_)
NodeValues(node) ==
  IF "children" \notin DOMAIN node THEN <<>>
  ELSE <<node.value>> \o NodeValues(node.children[1])
                     \o NodeValues(node.children[2])

\* The value of the node that first joins the cards a and b, both under node.
RECURSIVE JoinValue(_, _, _)
JoinValue(node, a, b) ==
  LET under(k) == {a, b} \subseteq Range(Leaves(node.children[k]))
  IN IF under(1) THEN JoinValue(node.children[1], a, b)
     ELSE IF under(2) THEN JoinValue(node.children[2], a, b)
     ELSE node.value

\* The cut holds the cards a and b in one cluster.
SameCluster(cut, a, b) ==
  \E c \in DOMAIN cut.clusters : {a, b} \subseteq Range(cut.clusters[c].cardIds)

\* C18: in every cut two distinct cards are in one cluster exactly when the
\* dendrogram node that first joins them has a value <= the threshold, and
\* the cut has n clusters less one per internal node with such a value.
C18_CutFollowsDendrogram ==
  (Clustered /\ Len(similarityMatrix.cardIds) >= 1) =>
    LET ids == similarityMatrix.cardIds
        root == clusterAnalysis.root
        values == NodeValues(root)
    IN \A t \in DOMAIN thresholds :
         LET cut == clusterAnalysis.suggestedClusters[t]
         IN /\ \A a \in Range(ids), b \in Range(ids) :
                 a # b =>
                   (SameCluster(cut, a, b)
                      <=> RLe(JoinValue(root, a, b), thresholds[t]))
            /\ Len(cut.clusters) =
                 Len(ids) - Cardinality({k \in DOMAIN values :
                                           RLe(values[k], thresholds[t])})

\* Four cards with a merge at exactly 0.5 and a merge above it: the cut at
\* 0.5 applies the first and not the second.
C18_Witness ==
  /\ Clustered
  /\ Len(similarityMatrix.cardIds) = 4
  /\ \E k \in DOMAIN NodeValues(clusterAnalysis.root) :
       NodeValues(clusterAnalysis.root)[k] = Rat(1, 2)
  /\ \E k \in DOMAIN NodeValues(clusterAnalysis.root) :
       RLt(Rat(1, 2), NodeValues(clusterAnalysis.root)[k])
  /\ Len(clusterAnalysis.suggestedClusters[2].clusters) \in {2, 3}

\* Every internal node under a dendrogram node has a value >= the values of
\* its children.
RECURSIVE ValuesGrowUpward(_)
ValuesGrowUpward(node) ==
  "children" \in DOMAIN node =>
    \A k \in DOMAIN node.children :
      /\ RLe(node.children[k].value, node.value)
      /\ ValuesGrowUpward(node.children[k])

\* Replaying the history for a threshold from the list current, every merge
\* that is applied finds at its recorded indices the two clusters it merged.
RECURSIVE ReplayAddresses(_, _, _)
ReplayAddresses(history, current, threshold) ==
  IF history = <<>> THEN TRUE
  ELSE LET merge == Head(history)
       IN IF RLe(merge.distance, threshold)
          THEN /\ merge.merged[1] \in DOMAIN current
               /\ merge.merged[2] \in DOMAIN current
               /\ current[merge.merged[1]].items
                    = merge.newCluster.children[1].items
               /\ current[merge.merged[2]].items
                    = merge.newCluster.children[2].items
               /\ ReplayAddresses(Tail(history), ApplyMerge(current, merge),
                                  threshold)
          ELSE ReplayAddresses(Tail(history), current, threshold)

\* C19: the recorded merge distances never decrease in merge order; so every
\* internal dendrogram node has a value >= the values of its children, the
\* merges with a distance <= a threshold are a prefix of the history, and a
\* replayed merge finds the clusters it merged at its recorded indices.
C19_MergeDistancesMonotone ==
  pc \in {"merging", "clustered"} =>
    /\ \A k \in DOMAIN mergeHistory, l \in DOMAIN mergeHistory :
         k <= l => RLe(mergeHistory[k].distance, mergeHistory[l].distance)
    /\ \A t \in DOMAIN thresholds :
         /\ \A k \in DOMAIN mergeHistory, l \in DOMAIN mergeHistory :
              (k <= l /\ RLe(mergeHistory[l].distance, thresholds[t]))
                => RLe(mergeHistory[k].distance, thresholds[t])
         /\ ReplayAddresses(mergeHistory,
                            [i \in DOMAIN similarityMatrix.cardIds |->
                               [id |-> similarityMatrix.cardIds[i],
                                items |-> <<similarityMatrix.cardIds[i]>>]],
                            thresholds[t])
    /\ (pc = "clustered" /\ clusterAnalysis # TypeError) =>
         ValuesGrowUpward(clusterAnalysis.root)

\* Four cards merged at three distances that grow strictly; the second
\* merge is within the 0.7 cut and at other indices than the first.
C19_Witness ==
  /\ pc = "clustered"
  /\ clusterAnalysis # TypeError
  /\ Len(mergeHistory) = 3
  /\ RLt(mergeHistory[1].distance, mergeHistory[2].distance)
  /\ RLt(mergeHistory[2].distance, mergeHistory[3].distance)
  /\ RLe(mergeHistory[2].distance, Rat(7, 10))
  /\ mergeHistory[2].merged # mergeHistory[1].merged

\* The mean of the initial distances between the cards of two clusters.
MeanCardDistance(itemsA, itemsB) ==
  RDiv(RSum(Flatten([a \in DOMAIN itemsA |->
                       [b \in DOMAIN itemsB |->
                          RSub(Num(1),
                               similarityMatrix.matrix
                                 [IndexOf(similarityMatrix.cardIds, itemsA[a])]
                                 [IndexOf(similarityMatrix.cardIds, itemsB[b])])]])),
       Num(Len(itemsA) * Len(itemsB)))

\* C20: the initial working distance of two cards is 1 - similarity; an
\* iteration that merges the clusters at minI and minJ leaves the other
\* clusters and the distances among them as they were, and puts the merged
\* cluster last, at the distance (d(minI, k) + d(minJ, k)) / 2 from each
\* other cluster k, whatever the sizes of the two.
C20_UnweightedAverageLinkage ==
  [][/\ (pc = "matrix" /\ pc' = "merging") =>
          \A i \in DOMAIN currentDist', j \in DOMAIN currentDist' :
            currentDist'[i][j] = RSub(Num(1), similarityMatrix.matrix[i][j])
     /\ (pc = "merging" /\ pc' = "merging") =>
          LET m == Len(clusters)
              merge == mergeHistory'[Len(mergeHistory')]
              minI == merge.merged[1]
              minJ == merge.merged[2]
              rest == Ascending((1..m) \ {minI, minJ})
          IN /\ minI # minJ
             /\ Len(clusters') = m - 1
             /\ DOMAIN currentDist' = 1..(m - 1)
             /\ clusters'[m - 1].items
                  = clusters[minI].items \o clusters[minJ].items
             /\ currentDist'[m - 1][m - 1] = Num(0)
             /\ \A r \in DOMAIN rest :
                  /\ clusters'[r] = clusters[rest[r]]
                  /\ currentDist'[r][m - 1]
                       = RDiv(RAdd(currentDist[minI][rest[r]],
                                   currentDist[minJ][rest[r]]), Num(2))
                  /\ currentDist'[m - 1][r] = currentDist'[r][m - 1]
                  /\ \A c \in DOMAIN rest :
                       currentDist'[r][c] = currentDist[rest[r]][rest[c]]
    ]_vars

\* After a card was merged with a cluster of two cards, the working distance
\* from the merged cluster to the remaining card is not the mean of the
\* distances between their cards.
C20_Witness ==
  /\ pc = "merging"
  /\ Len(mergeHistory) = 2
  /\ Len(clusters) = 2
  /\ Len(clusters[2].items) = 3
  /\ currentDist[1][2] # MeanCardDistance(clusters[1].items, clusters[2].items)

\* C21: an iteration merges a pair i < j of the current clusters at the least
\* working distance, the first such pair in row-major order; the other
\* clusters keep their order and the merged cluster comes last.
C21_MergesFirstMinimalPair ==
  [][(pc = "merging" /\ pc' = "merging") =>
       LET m == Len(clusters)
           merge == mergeHistory'[Len(mergeHistory')]
           minI == merge.merged[1]
           minJ == merge.merged[2]
           rest == Ascending((1..m) \ {minI, minJ})
       IN /\ 1 <= minI /\ minI < minJ /\ minJ <= m
          /\ merge.distance = currentDist[minI][minJ]
          /\ \A i \in 1..m, j \in 1..m :
               i < j =>
                 /\ RLe(currentDist[minI][minJ], currentDist[i][j])
                 /\ (i < minI \/ (i = minI /\ j < minJ)) =>
                      RLt(currentDist[minI][minJ], currentDist[i][j])
          /\ clusters' =
               [r \in DOMAIN rest |-> clusters[rest[r]]]
                 \o <<merge.newCluster>>
          /\ merge.newCluster.children = <<clusters[minI], clusters[minJ]>>
    ]_vars

\* Four cards at distance 1 from each other: the first merge joins the first
\* two cards, the second the other two, which then head the cluster list.
C21_Witness ==
  /\ pc = "merging"
  /\ Len(similarityMatrix.cardIds) = 4
  /\ \A i \in 1..4, j \in 1..4 :
       i # j => similarityMatrix.matrix[i][j] = Num(0)
  /\ Len(mergeHistory) = 2
  /\ mergeHistory[1].merged = <<1, 2>>
  /\ mergeHistory[1].newCluster.items
       = <<similarityMatrix.cardIds[1], similarityMatrix.cardIds[2]>>
  /\ mergeHistory[2].merged = <<1, 2>>
  /\ mergeHistory[2].newCluster.items
       = <<similarityMatrix.cardIds[3], similarityMatrix.cardIds[4]>>

\* The session places the two cards in categories of one name and of
\* different ids.
PlacesUnderOneName(session, idA, idB) ==
  \E k \in DOMAIN session.placements, l \in DOMAIN session.placements :
    /\ session.placements[k].cardId = idA
    /\ session.placements[l].cardId = idB
    /\ session.placements[k].categoryName = session.placements[l].categoryName
    /\ session.placements[k].categoryId # session.placements[l].categoryId

\* C22: with at most one placement per card in every session, the similarity
\* of two cards counts the sessions whose placements of the two carry one
\* categoryId, and no other: a session that places them in two categories of
\* one name adds nothing.
C22_GroupedByCategoryId ==
  (pc = "matrix" /\ OnePlacementPerCard /\ Len(sessions) >= 1) =>
    \A i \in DOMAIN cards, j \in DOMAIN cards :
      i # j =>
        /\ similarityMatrix.matrix[i][j] =
             Rat(Cardinality({s \in DOMAIN sessions :
                   PlacesTogether(sessions[s], cards[i].id, cards[j].id)}),
                 Len(sessions))
        /\ (\A s \in DOMAIN sessions :
              ~PlacesTogether(sessions[s], cards[i].id, cards[j].id))
             => similarityMatrix.matrix[i][j] = Num(0)

\* Every session places the two cards in two categories of one name, and
\* their similarity is 0.
C22_Witness ==
  /\ pc = "matrix"
  /\ OnePlacementPerCard
  /\ Len(cards) = 2
  /\ Len(sessions) = 2
  /\ \A s \in DOMAIN sessions :
       PlacesUnderOneName(sessions[s], cards[1].id, cards[2].id)
  /\ similarityMatrix.matrix[1][2] = Num(0)

\* The sessions without the placements of cards that are not among cs.
WithoutUnknownCards(ss, cs) ==
  [s \in DOMAIN ss |->
     [ss[s] EXCEPT !.placements =
        SelectSeq(@, LAMBDA pl : \E c \in DOMAIN cs : cs[c].id = pl.cardId)]]

\* C23: computeSimilarityMatrix and analyzeCardPlacements return for a
\* session list what they return for the list without the placements of
\* cards that are not among the given cards, and neither throws.
C23_UnknownCardsIgnored ==
  /\ pc = "matrix" =>
       similarityMatrix
         = computeSimilarityMatrix(WithoutUnknownCards(sessions, cards), cards)
  /\ pc = "summarized" =>
       cardSummaries
         = analyzeCardPlacements(WithoutUnknownCards(sessions, cards), cards)

\* Summaries of two cards from a session whose first placement is of a card
\* the study does not have, in the category of its placement of a card the
\* study has.
C23_Witness ==
  /\ pc = "summarized"
  /\ Len(cards) = 2
  /\ \E s \in DOMAIN sessions :
       /\ Len(sessions[s].placements) = 2
       /\ \A c \in DOMAIN cards : cards[c].id # sessions[s].placements[1].cardId
       /\ sessions[s].placements[2].cardId = cards[1].id
       /\ sessions[s].placements[1].categoryId
            = sessions[s].placements[2].categoryId
  /\ cardSummaries[2].placements = <<>>

\* The sessions that place the card id.
PlacingSessions(id) == {s \in DOMAIN sessions : Places(sessions[s], id)}

\* C24: analyzeCardPlacements returns one summary per card, in the order of
\* the cards; the entries of a summary are in non-increasing order of count,
\* the counts add up to the number of sessions that place the card (one
\* placement per session is tallied), and agreementScore is the largest
\* count over that number, 0 for a card no session places, and within [0, 1].
C24_SummaryPerCard ==
  pc = "summarized" =>
    /\ DOMAIN cardSummaries = DOMAIN cards
    /\ \A i \in DOMAIN cards :
         LET summary == cardSummaries[i]
             entries == summary.placements
             total == Cardinality(PlacingSessions(cards[i].id))
         IN /\ summary.cardId = cards[i].id
            /\ summary.cardLabel = cards[i].label
            /\ \A k \in DOMAIN entries, l \in DOMAIN entries :
                 k <= l => entries[k].count >= entries[l].count
            /\ RSum([k \in DOMAIN entries |-> Num(entries[k].count)])
                 = Num(total)
            /\ (total = 0) => (entries = <<>> /\ summary.agreementScore = Num(0))
            /\ (total > 0) =>
                 \E k \in DOMAIN entries :
                   /\ \A l \in DOMAIN entries :
                        entries[l].count <= entries[k].count
                   /\ summary.agreementScore = Rat(entries[k].count, total)
            /\ RLe(Num(0), summary.agreementScore)
            /\ RLe(summary.agreementScore, Num(1))

\* Three sessions place the first of two cards, one of them twice: the
\* name of the first session has count 1 and comes second, after a name
\* with count 2, and agreementScore is 2/3.
C24_Witness ==
  /\ pc = "summarized"
  /\ Len(cards) = 2
  /\ Len(sessions) = 3
  /\ \E s \in DOMAIN sessions : Len(sessions[s].placements) = 2
  /\ Len(cardSummaries[1].placements) = 2
  /\ cardSummaries[1].placements[1].count = 2
  /\ cardSummaries[1].placements[2].count = 1
  /\ sessions[1].placements # <<>>
  /\ cardSummaries[1].placements[2].categoryName
       = normalizeCategory(sessions[1].placements[1].categoryName)
  /\ cardSummaries[1].agreementScore = Rat(2, 3)
  /\ cardSummaries[2].placements = <<>>

\* A name lower-cased, without the characters that are neither a lower-case
\* letter, a digit nor whitespace, and then trimmed.
StrippedThenTrimmed(name) == trim(StripOthers(toLowerCase(name)))

\* C25: the entries of a card's summary are the category names of the
\* placements tallied for it (the first of the card in each session), one
\* entry per name after lower-casing, stripping and trimming, and no
\* entry's categoryName starts or ends with whitespace.
C25_TalliedByNormalizedName ==
  pc = "summarized" =>
    \A i \in DOMAIN cards :
      LET entries == cardSummaries[i].placements
          tallied == {FindPlacement(sessions[s], cards[i].id).categoryName :
                        s \in PlacingSessions(cards[i].id)}
      IN /\ Len(entries)
              = Cardinality({StrippedThenTrimmed(name) : name \in tallied})
         /\ \A k \in DOMAIN entries :
              /\ entries[k].categoryName = trim(entries[k].categoryName)
              /\ entries[k].count =
                   Cardinality({s \in PlacingSessions(cards[i].id) :
                     StrippedThenTrimmed(
                       FindPlacement(sessions[s], cards[i].id).categoryName)
                       = entries[k].categoryName})

UNSORTED_CONTAINER_ID == <<"unsorted-tray", 0>>
GeneratedIds == {<<"id", k>> : k \in 1..MaxGeneratedIds}
CategoryNames == {"A", ""}
\* The toIndex of a call that passes none.
NoIndex == -1

\* filter((id) => id !== x)
Without(s, x) == SelectSeq(s, LAMBDA y : y # x)

\* splice(i, 0, x): x inserted before the element of 0-based index i, or
\* appended when i exceeds the length.
Splice(s, i, x) ==
  LET at == IF i > Len(s) THEN Len(s) ELSE i
  IN SubSeq(s, 1, at) \o <<x>> \o SubSeq(s, at + 1, Len(s))

\* categories.find((cat) => cat.id === id), as an index; 0 when there is none.
FindCategory(cats, id) ==
  IF \E k \in DOMAIN cats : cats[k].id = id
  THEN CHOOSE k \in DOMAIN cats :
         cats[k].id = id /\ \A l \in 1..(k - 1) : cats[l].id # id
  ELSE 0

getContainerName(cats, containerId) ==
  IF containerId = UNSORTED_CONTAINER_ID THEN "Unsorted Tray"
  ELSE LET k == FindCategory(cats, containerId)
       IN IF k # 0 /\ cats[k].name # "" THEN cats[k].name ELSE "Unknown"

\* The containers of the store, and those that hold a card.
Containers == {UNSORTED_CONTAINER_ID} \cup {categories[k].id : k \in DOMAIN categories}
ContainersOf(cardId) ==
  {c \in {UNSORTED_CONTAINER_ID} : cardId \in Range(unsortedCardIds)}
    \cup {categories[k].id : k \in {l \in DOMAIN categories :
                                      cardId \in Range(categories[l].cardIds)}}

\* What the unsorted tray and every category hold, as sets of cards.
Contents ==
  [unsorted |-> Range(unsortedCardIds),
   byCategory |-> {<<categories[k].id, Range(categories[k].cardIds)>> :
                     k \in DOMAIN categories}]

\* The card removed from the container from, by moveCard and by undo.
RemoveFrom(ids, cats, from, cardId) ==
  IF from = UNSORTED_CONTAINER_ID
  THEN [unsortedCardIds |-> Without(ids, cardId), categories |-> cats]
  ELSE LET k == FindCategory(cats, from)
       IN [unsortedCardIds |-> ids,
           categories |->
             IF k = 0 THEN cats
             ELSE [cats EXCEPT ![k].cardIds = Without(@, cardId)]]

\* The card added to the container to, at toIndex or at the end.
AddTo(ids, cats, to, cardId, toIndex) ==
  IF to = UNSORTED_CONTAINER_ID
  THEN [unsortedCardIds |->
          IF toIndex # NoIndex THEN Splice(ids, toIndex, cardId)
          ELSE Append(ids, cardId),
        categories |-> cats]
  ELSE LET k == FindCategory(cats, to)
       IN [unsortedCardIds |-> ids,
           categories |->
             IF k = 0 THEN cats
             ELSE [cats EXCEPT ![k].cardIds =
                     IF toIndex # NoIndex THEN Splice(@, toIndex, cardId)
                     ELSE Append(@, cardId)]]

InitializeCards ==
  /\ pc = "idle"
  /\ \E n \in 1..MaxStoreCards :
       /\ cards' = [i \in 1..n |-> Card(i)]
       /\ unsortedCardIds' = [i \in 1..n |-> Card(i).id]
  /\ undoRun' = None
  /\ pc' = "sorting"
  /\ UNCHANGED <<sessions, similarityMatrix, clusterAnalysis, cardSummaries,
               analysisResults, insights, loopVars, categories, actionHistory,
               lastAnnouncement, apiVars>>

\* moveCard(cardId, fromContainerId, toContainerId, toIndex), called as the
\* interface calls it: from a container that holds the card, to a container
\* that exists. toIndex is NoIndex when the caller leaves it out.
MoveCard ==
  /\ pc = "sorting"
  /\ Len(actionHistory) < MaxHistory
  /\ \E cardId \in 1..MaxStoreCards, to \in Containers,
        toIndex \in {NoIndex} \cup (0..MaxStoreCards) :
       \E from \in ContainersOf(cardId) :
         LET c == IndexOf([i \in DOMAIN cards |-> cards[i].id], cardId)
             action == [cardId |-> cardId,
                        cardLabel |-> cards[c].label,
                        fromContainerId |-> from,
                        fromContainerName |-> getContainerName(categories, from),
                        toContainerId |-> to,
                        toContainerName |-> getContainerName(categories, to)]
             removed == RemoveFrom(unsortedCardIds, categories, from, cardId)
             added == AddTo(removed.unsortedCardIds, removed.categories, to,
                            cardId, toIndex)
             k == FindCategory(added.categories, to)
             targetCards == IF to = UNSORTED_CONTAINER_ID THEN added.unsortedCardIds
                            ELSE IF k # 0 THEN added.categories[k].cardIds
                            ELSE <<>>
         IN /\ c # 0
            /\ unsortedCardIds' = added.unsortedCardIds
            /\ categories' = added.categories
            /\ actionHistory' = Append(actionHistory, action)
            /\ lastAnnouncement' =
                 [moved |-> cards[c].label,
                  target |-> getContainerName(categories, to),
                  position |-> IndexOf(targetCards, cardId),
                  total |-> Len(targetCards)]
            /\ undoRun' =
                 IF undoRun # None /\ undoRun.undos = 0
                 THEN [undoRun EXCEPT !.moves = @ + 1]
                 ELSE [before |-> Contents, history |-> actionHistory,
                       moves |-> 1, undos |-> 0]
  /\ UNCHANGED <<cards, sessions, similarityMatrix, clusterAnalysis, cardSummaries,
               analysisResults, insights, loopVars, pc, apiVars>>

\* generateId returns an id it has not returned yet: that of no category,
\* past or present, that the store still refers to.
AddCategory ==
  /\ pc = "sorting"
  /\ Len(categories) < MaxCategories
  /\ \E name \in CategoryNames,
        id \in GeneratedIds \
                ({categories[k].id : k \in DOMAIN categories}
                   \cup {actionHistory[k].fromContainerId : k \in DOMAIN actionHistory}
                   \cup {actionHistory[k].toContainerId : k \in DOMAIN actionHistory}) :
       /\ categories' = Append(categories,
            [id |-> id, name |-> name, cardIds |-> <<>>, isUserCreated |-> TRUE])
       /\ lastAnnouncement' = [created |-> name]
  /\ undoRun' = None
  /\ UNCHANGED <<cards, sessions, similarityMatrix, clusterAnalysis, cardSummaries,
               analysisResults, insights, loopVars, pc, unsortedCardIds,
               actionHistory, apiVars>>

RemoveCategory ==
  /\ pc = "sorting"
  /\ \E categoryId \in GeneratedIds :
       LET k == FindCategory(categories, categoryId)
       IN /\ k # 0
          /\ categories' = SelectSeq(categories, LAMBDA cat : cat.id # categoryId)
          /\ unsortedCardIds' = unsortedCardIds \o categories[k].cardIds
          /\ lastAnnouncement' = [removed |-> categories[k].name,
                                  returned |-> Len(categories[k].cardIds)]
  /\ undoRun' = None
  /\ UNCHANGED <<cards, sessions, similarityMatrix, clusterAnalysis, cardSummaries,
               analysisResults, insights, loopVars, pc, actionHistory, apiVars>>

RenameCategory ==
  /\ pc = "sorting"
  /\ \E categoryId \in GeneratedIds, newName \in CategoryNames :
       /\ categories' = [k \in DOMAIN categories |->
            IF categories[k].id = categoryId
            THEN [categories[k] EXCEPT !.name = newName]
            ELSE categories[k]]
       /\ lastAnnouncement' = [renamed |-> newName]
  /\ undoRun' = None
  /\ UNCHANGED <<cards, sessions, similarityMatrix, clusterAnalysis, cardSummaries,
               analysisResults, insights, loopVars, pc, unsortedCardIds,
               actionHistory, apiVars>>

\* Enabled while the containers hold, repetitions counted, fewer than MaxHeld
\* card ids.
Undo ==
  /\ pc = "sorting"
  /\ Len(unsortedCardIds)
       + RSum([k \in DOMAIN categories |-> Num(Len(categories[k].cardIds))])[1]
       < MaxHeld
  /\ IF Len(actionHistory) = 0
     THEN /\ lastAnnouncement' = [text |-> "Nothing to undo."]
          /\ undoRun' = None
          /\ UNCHANGED <<unsortedCardIds, categories, actionHistory>>
     ELSE LET lastAction == actionHistory[Len(actionHistory)]
              removed == RemoveFrom(unsortedCardIds, categories,
                                    lastAction.toContainerId, lastAction.cardId)
              added == AddTo(removed.unsortedCardIds, removed.categories,
                             lastAction.fromContainerId, lastAction.cardId, NoIndex)
          IN /\ unsortedCardIds' = added.unsortedCardIds
             /\ categories' = added.categories
             /\ actionHistory' = SubSeq(actionHistory, 1, Len(actionHistory) - 1)
             /\ lastAnnouncement' =
                  [undone |-> lastAction.cardLabel,
                   returnedTo |-> getContainerName(categories,
                                                   lastAction.fromContainerId)]
             /\ undoRun' =
                  IF undoRun # None /\ undoRun.undos < undoRun.moves
                  THEN [undoRun EXCEPT !.undos = @ + 1]
                  ELSE None
  /\ UNCHANGED <<cards, sessions, similarityMatrix, clusterAnalysis, cardSummaries,
               analysisResults, insights, loopVars, pc, apiVars>>

Reset ==
  /\ pc = "sorting"
  /\ unsortedCardIds' = [k \in DOMAIN cards |-> cards[k].id]
  /\ categories' = [k \in DOMAIN categories |->
                      [categories[k] EXCEPT !.cardIds = <<>>]]
  /\ actionHistory' = <<>>
  /\ lastAnnouncement' = [text |-> "All cards have been reset to the unsorted tray."]
  /\ undoRun' = None
  /\ UNCHANGED <<cards, sessions, similarityMatrix, clusterAnalysis, cardSummaries,
               analysisResults, insights, loopVars, pc, apiVars>>

getUnsortedCount == Len(unsortedCardIds)
getSortedCount == Len(cards) - Len(unsortedCardIds)

InitStore ==
  /\ cards = <<>>
  /\ sessions = <<>>
  /\ similarityMatrix = None
  /\ clusterAnalysis = None
  /\ cardSummaries = None
  /\ analysisResults = None
  /\ insights = None
  /\ clusters = None
  /\ currentDist = None
  /\ mergeHistory = None
  /\ sharesMatrix = FALSE
  /\ StoreInitial
  /\ DatabaseEmpty
  /\ pc = "idle"

NextStore ==
  \/ InitializeCards
  \/ MoveCard
  \/ AddCategory
  \/ RemoveCategory
  \/ RenameCategory
  \/ Undo
  \/ Reset

SpecStore == InitStore /\ [][NextStore]_vars

\* C27: in the card-sort store, once initializeCards has run, every card id
\* occurs exactly once across unsortedCardIds and the cardIds of all
\* categories, so getSortedCount() + getUnsortedCount() is the number of cards.
TimesHeld(cardId) ==
  Occurrences(unsortedCardIds, cardId)
    + RSum([k \in DOMAIN categories |->
              Num(Occurrences(categories[k].cardIds, cardId))])[1]

C27_EveryCardOnce ==
  pc = "sorting" =>
    /\ \A k \in DOMAIN cards : TimesHeld(cards[k].id) = 1
    /\ getSortedCount + getUnsortedCount = Len(cards)

\* The run of k moveCard calls and k undo calls is complete.
RunUndone == undoRun # None /\ undoRun.undos = undoRun.moves

RunRestored ==
  RunUndone => Contents = undoRun.before /\ actionHistory = undoRun.history

\* C28: in the card-sort store, k successive moveCard calls followed by k
\* undo calls, with no other operation in between, restore the set of cards
\* of the unsorted tray and of every category and leave actionHistory as it
\* was; each moveCard appends exactly one history entry, each undo removes
\* exactly the last one, and undo on an empty history changes nothing but
\* lastAnnouncement.
C28_UndoRestoresMoves ==
  [][/\ RunRestored'
     /\ "moved" \in DOMAIN lastAnnouncement' =>
          /\ Len(actionHistory') = Len(actionHistory) + 1
          /\ SubSeq(actionHistory', 1, Len(actionHistory)) = actionHistory
     /\ "undone" \in DOMAIN lastAnnouncement' =>
          /\ actionHistory # <<>>
          /\ actionHistory' = SubSeq(actionHistory, 1, Len(actionHistory) - 1)
     /\ (pc = "sorting" /\ actionHistory = <<>> /\ lastAnnouncement' = [text |-> "Nothing to undo."]) =>
          /\ cards' = cards
          /\ categories' = categories
          /\ unsortedCardIds' = unsortedCardIds
          /\ actionHistory' = actionHistory
    ]_vars

(***************************************************************************)
(* The API routes of a participant session, on the database tables they    *)
(* read and write. Row ids are integers; a null column is Null. A request  *)
(* is handled to its end before the next one starts. Of a row, the columns *)
(* the routes decide on or write are kept: the details of a sessionAction  *)
(* and a session's userAgent, screen size and accessibilityMode are not.   *)
(***************************************************************************)
StudyId == 1
SessionId == 1
\* A session id no row has.
MissingSessionId == 2
CategoryRowIds == 1..MaxCategoryRows
\* A number the request body leaves out; a status it leaves out is "undefined".
Absent == -2

\* findUnique({ where: { id } }) on participantSession, as an index; 0 for null.
FindSession(id) ==
  IF \E k \in DOMAIN participantSession : participantSession[k].id = id
  THEN CHOOSE k \in DOMAIN participantSession : participantSession[k].id = id
  ELSE 0

\* The createdCategory row of an id, as an index; 0 when there is none.
FindCategoryRow(id) ==
  IF \E k \in DOMAIN createdCategory : createdCategory[k].id = id
  THEN CHOOSE k \in DOMAIN createdCategory : createdCategory[k].id = id
  ELSE 0

\* The cardPlacement rows of a session.
PlacementsOf(rows, sessionId) == {p \in rows : p.sessionId = sessionId}

\* The request bodies of the placements route: the categories the participant
\* created, with distinct ids, and the placements of card 1 in one of them (in
\* a closed sort, in a category of the study, named by its name).
CreatedCategoryBodies ==
  {<<>>} \cup {<<[id |-> id, name |-> "A"]>> : id \in CategoryRowIds}
PlacementBodies(createdCategories) ==
  {<<>>} \cup
    {<<[cardId |-> 1, categoryId |-> id, categoryName |-> "A", position |-> 0]>> :
       id \in {createdCategories[k].id : k \in DOMAIN createdCategories}}

\* PATCH /api/sessions/[sessionId]
PatchSession ==
  /\ \E sessionId \in {SessionId, MissingSessionId},
        status \in {"undefined", "COMPLETED", "ABANDONED"},
        totalMoves \in {Absent} \cup (0..MaxMoves),
        undoCount \in {Absent} \cup (0..MaxUndoCount),
        now \in 0..MaxApiTime :
       LET k == FindSession(sessionId)
           session == participantSession[k]
           completes == status = "COMPLETED"
           updated ==
             [session EXCEPT
                !.status = IF completes THEN "COMPLETED"
                           ELSE IF status = "ABANDONED" THEN "ABANDONED" ELSE @,
                !.completedAt = IF completes THEN now ELSE @,
                !.durationMs = IF completes THEN now - session.startedAt ELSE @,
                !.totalMoves = IF totalMoves # Absent THEN totalMoves ELSE @,
                !.undoCount = IF undoCount # Absent THEN undoCount ELSE @]
       IN IF k = 0 \/ session.status = "COMPLETED"
          THEN UNCHANGED <<participantSession, sessionAction>>
          ELSE /\ now >= session.startedAt
               /\ completes => Len(sessionAction) < MaxActions
               /\ sessionAction' =
                    IF completes
                    THEN Append(sessionAction,
                                [sessionId |-> sessionId, type |-> "COMPLETE_SESSION"])
                    ELSE sessionAction
               /\ participantSession' = [participantSession EXCEPT ![k] = updated]
  /\ UNCHANGED <<cards, sessions, similarityMatrix, clusterAnalysis, cardSummaries,
               analysisResults, insights, loopVars, pc, storeVars, study,
               cardPlacement, createdCategory, requests>>

\* POST /api/sessions/[sessionId]/placements
PostPlacements ==
  /\ \E sessionId \in {SessionId, MissingSessionId},
        createdCategories \in CreatedCategoryBodies :
       \E placements \in PlacementBodies(createdCategories) :
         LET k == FindSession(sessionId)
             session == participantSession[k]
             open == study.mode = "OPEN"
         IN IF k = 0 \/ session.status = "COMPLETED"
            THEN UNCHANGED <<participantSession, cardPlacement, createdCategory>>
            ELSE /\ session.totalMoves < MaxMoves
                 /\ createdCategory' =
                      IF open
                      THEN SelectSeq(createdCategory, LAMBDA c : c.sessionId # sessionId)
                             \o [i \in DOMAIN createdCategories |->
                                   [id |-> createdCategories[i].id,
                                    name |-> createdCategories[i].name,
                                    sortOrder |-> i - 1,
                                    sessionId |-> sessionId]]
                      ELSE createdCategory
                 /\ cardPlacement' =
                      (cardPlacement \ PlacementsOf(cardPlacement, sessionId))
                        \cup {[cardId |-> placements[i].cardId,
                               sessionId |-> sessionId,
                               createdCategoryId |->
                                 IF open THEN placements[i].categoryId ELSE Null,
                               categoryName |-> placements[i].categoryName,
                               position |-> placements[i].position] :
                                i \in DOMAIN placements}
                 /\ participantSession' =
                      [participantSession EXCEPT ![k].totalMoves = @ + 1]
  /\ UNCHANGED <<cards, sessions, similarityMatrix, clusterAnalysis, cardSummaries,
               analysisResults, insights, loopVars, pc, storeVars, study,
               sessionAction, requests>>

\* POST /api/sessions/[sessionId]/categories
PostCategory ==
  /\ \E sessionId \in {SessionId, MissingSessionId}, name \in CategoryNames :
       LET k == FindSession(sessionId)
           categoryCount ==
             Len(SelectSeq(createdCategory, LAMBDA c : c.sessionId = sessionId))
       IN IF name = "" \/ k = 0 \/ participantSession[k].status # "IN_PROGRESS"
          THEN UNCHANGED <<createdCategory, sessionAction>>
          ELSE /\ Len(sessionAction) < MaxActions
               /\ \E id \in CategoryRowIds :
                    /\ FindCategoryRow(id) = 0
                    /\ createdCategory' =
                         Append(createdCategory,
                                [id |-> id, name |-> name,
                                 sortOrder |-> categoryCount,
                                 sessionId |-> sessionId])
               /\ sessionAction' =
                    Append(sessionAction,
                           [sessionId |-> sessionId, type |-> "CREATE_CATEGORY"])
  /\ UNCHANGED <<cards, sessions, similarityMatrix, clusterAnalysis, cardSummaries,
               analysisResults, insights, loopVars, pc, storeVars, study,
               participantSession, cardPlacement, requests>>

\* PUT /api/sessions/[sessionId]/categories/[categoryId], for a session that
\* exists; update throws, and nothing is written, when no row has the id.
PutCategory ==
  /\ \E categoryId \in CategoryRowIds, name \in CategoryNames :
       LET c == FindCategoryRow(categoryId)
       IN IF name = "" \/ c = 0
          THEN UNCHANGED <<createdCategory, sessionAction>>
          ELSE /\ Len(sessionAction) < MaxActions
               /\ createdCategory' = [createdCategory EXCEPT ![c].name = name]
               /\ sessionAction' =
                    Append(sessionAction,
                           [sessionId |-> SessionId, type |-> "RENAME_CATEGORY"])
  /\ UNCHANGED <<cards, sessions, similarityMatrix, clusterAnalysis, cardSummaries,
               analysisResults, insights, loopVars, pc, storeVars, study,
               participantSession, cardPlacement, requests>>

\* DELETE /api/sessions/[sessionId]/categories/[categoryId], for a session that
\* exists; delete throws after the placements are gone when no row has the id.
DeleteCategory ==
  /\ \E categoryId \in CategoryRowIds :
       LET c == FindCategoryRow(categoryId)
       IN /\ cardPlacement' =
               {p \in cardPlacement :
                  ~(p.sessionId = SessionId /\ p.createdCategoryId = categoryId)}
          /\ IF c = 0
             THEN UNCHANGED <<createdCategory, sessionAction>>
             ELSE /\ Len(sessionAction) < MaxActions
                  /\ createdCategory' =
                       SelectSeq(createdCategory, LAMBDA row : row.id # categoryId)
                  /\ sessionAction' =
                       Append(sessionAction,
                              [sessionId |-> SessionId, type |-> "DELETE_CATEGORY"])
  /\ UNCHANGED <<cards, sessions, similarityMatrix, clusterAnalysis, cardSummaries,
               analysisResults, insights, loopVars, pc, storeVars, study,
               participantSession, requests>>

validTypes ==
  {"MOVE_CARD", "CREATE_CATEGORY", "RENAME_CATEGORY", "DELETE_CATEGORY", "UNDO"}

\* POST /api/sessions/[sessionId]/actions
PostAction ==
  /\ \E sessionId \in {SessionId, MissingSessionId},
        type \in {"MOVE_CARD", "UNDO", "COMPLETE_SESSION"} :
       LET k == FindSession(sessionId)
       IN IF k = 0 \/ type \notin validTypes
          THEN UNCHANGED <<participantSession, sessionAction>>
          ELSE /\ Len(sessionAction) < MaxActions
               /\ type = "UNDO" => participantSession[k].undoCount < MaxUndoCount
               /\ sessionAction' =
                    Append(sessionAction, [sessionId |-> sessionId, type |-> type])
               /\ participantSession' =
                    IF type = "UNDO"
                    THEN [participantSession EXCEPT ![k].undoCount = @ + 1]
                    ELSE participantSession
  /\ UNCHANGED <<cards, sessions, similarityMatrix, clusterAnalysis, cardSummaries,
               analysisResults, insights, loopVars, pc, storeVars, study,
               cardPlacement, createdCategory, requests>>

\* An open or a closed study with one session in progress, as session
\* creation leaves it.
InitSession ==
  /\ cards = <<>>
  /\ sessions = <<>>
  /\ similarityMatrix = None
  /\ clusterAnalysis = None
  /\ cardSummaries = None
  /\ analysisResults = None
  /\ insights = None
  /\ clusters = None
  /\ currentDist = None
  /\ mergeHistory = None
  /\ sharesMatrix = FALSE
  /\ StoreInitial
  /\ \E mode \in {"OPEN", "CLOSED"} :
       study = [id |-> StudyId, status |-> "ACTIVE", mode |-> mode]
  /\ participantSession =
       <<[id |-> SessionId, studyId |-> StudyId, displayId |-> <<"P", "0", "0", "1">>,
          status |-> "IN_PROGRESS", startedAt |-> 0, completedAt |-> Null,
          durationMs |-> Null, totalMoves |-> 0, undoCount |-> 0]>>
  /\ cardPlacement = {}
  /\ createdCategory = <<>>
  /\ sessionAction = <<[sessionId |-> SessionId, type |-> "START_SESSION"]>>
  /\ requests = <<>>
  /\ pc = "idle"

NextSession ==
  \/ PatchSession
  \/ PostPlacements
  \/ PostCategory
  \/ PutCategory
  \/ DeleteCategory
  \/ PostAction

SpecSession == InitSession /\ [][NextSession]_vars

\* C29: once a participant session's status is COMPLETED, no later API
\* request changes its status, its completedAt or its stored card placements.
C29_CompletedSessionFrozen ==
  [][\A k \in DOMAIN participantSession :
       participantSession[k].status = "COMPLETED" =>
         /\ k \in DOMAIN participantSession'
         /\ participantSession'[k].status = "COMPLETED"
         /\ participantSession'[k].completedAt = participantSession[k].completedAt
         /\ PlacementsOf(cardPlacement', participantSession[k].id)
              = PlacementsOf(cardPlacement, participantSession[k].id)]_vars

(***************************************************************************)
(* Session creation: POST /api/sessions and POST /api/participate/[slug]/  *)
(* sessions. Every await of a handler is a step, so the handlers of        *)
(* several requests interleave between their database calls.               *)
(***************************************************************************)
\* String(n), as its characters.
RECURSIVE ToDigits(_)
ToDigits(n) ==
  LET digits == <<"0", "1", "2", "3", "4", "5", "6", "7", "8", "9">>
  IN IF n < 10 THEN <<digits[n + 1]>>
     ELSE Append(ToDigits(n \div 10), digits[(n % 10) + 1])

\* padStart(width, ch)
RECURSIVE PadStart(_, _, _)
PadStart(str, width, ch) ==
  IF Len(str) >= width THEN str ELSE PadStart(<<ch>> \o str, width, ch)

\* `P${String(sessionCount + 1).padStart(3, '0')}`
DisplayIdAfter(sessionCount) == <<"P">> \o PadStart(ToDigits(sessionCount + 1), 3, "0")

\* participantSession.count({ where: { studyId } })
CountSessionsOf(studyId) ==
  Cardinality({k \in DOMAIN participantSession :
                 participantSession[k].studyId = studyId})

\* The requests that have not been handled yet, for the study and for a
\* study that does not exist.
NewRequests ==
  {[route |-> route, studyId |-> studyId, pc |-> "start", sessionCount |-> Null,
    sessionId |-> Null] :
     route \in {"sessions", "participate"}, studyId \in {StudyId, StudyId + 1}}

\* study.findUnique and the two early returns; the participate route reads
\* the study's session count in the same query.
FindStudy(r) ==
  /\ requests[r].pc = "start"
  /\ requests' =
       [requests EXCEPT ![r] =
          IF requests[r].studyId # study.id \/ study.status # "ACTIVE"
          THEN [@ EXCEPT !.pc = "done"]
          ELSE IF @.route = "participate"
          THEN [@ EXCEPT !.pc = "create",
                         !.sessionCount = CountSessionsOf(study.id)]
          ELSE [@ EXCEPT !.pc = "count"]]
  /\ UNCHANGED <<cards, sessions, similarityMatrix, clusterAnalysis, cardSummaries,
               analysisResults, insights, loopVars, pc, storeVars, study,
               participantSession, cardPlacement, createdCategory, sessionAction>>

CountSessions(r) ==
  /\ requests[r].pc = "count"
  /\ requests' = [requests EXCEPT ![r].pc = "create",
                                  ![r].sessionCount =
                                    CountSessionsOf(requests[r].studyId)]
  /\ UNCHANGED <<cards, sessions, similarityMatrix, clusterAnalysis, cardSummaries,
               analysisResults, insights, loopVars, pc, storeVars, study,
               participantSession, cardPlacement, createdCategory, sessionAction>>

CreateSession(r) ==
  /\ requests[r].pc = "create"
  /\ \E now \in 0..MaxApiTime :
       LET id == Len(participantSession) + 1
       IN /\ participantSession' =
               Append(participantSession,
                      [id |-> id, studyId |-> requests[r].studyId,
                       displayId |-> DisplayIdAfter(requests[r].sessionCount),
                       status |-> "IN_PROGRESS", startedAt |-> now,
                       completedAt |-> Null, durationMs |-> Null,
                       totalMoves |-> 0, undoCount |-> 0])
          /\ requests' = [requests EXCEPT ![r].pc = "log", ![r].sessionId = id]
  /\ UNCHANGED <<cards, sessions, similarityMatrix, clusterAnalysis, cardSummaries,
               analysisResults, insights, loopVars, pc, storeVars, study,
               cardPlacement, createdCategory, sessionAction>>

LogStart(r) ==
  /\ requests[r].pc = "log"
  /\ sessionAction' =
       Append(sessionAction,
              [sessionId |-> requests[r].sessionId, type |-> "START_SESSION"])
  /\ requests' = [requests EXCEPT ![r].pc = "done"]
  /\ UNCHANGED <<cards, sessions, similarityMatrix, clusterAnalysis, cardSummaries,
               analysisResults, insights, loopVars, pc, storeVars, study,
               participantSession, cardPlacement, createdCategory>>

\* A study without sessions and the requests that arrive for it.
InitCreate ==
  /\ cards = <<>>
  /\ sessions = <<>>
  /\ similarityMatrix = None
  /\ clusterAnalysis = None
  /\ cardSummaries = None
  /\ analysisResults = None
  /\ insights = None
  /\ clusters = None
  /\ currentDist = None
  /\ mergeHistory = None
  /\ sharesMatrix = FALSE
  /\ StoreInitial
  /\ \E status \in {"ACTIVE", "DRAFT"} :
       study = [id |-> StudyId, status |-> status, mode |-> "OPEN"]
  /\ participantSession = <<>>
  /\ cardPlacement = {}
  /\ createdCategory = <<>>
  /\ sessionAction = <<>>
  /\ requests \in [1..MaxRequests -> NewRequests]
  /\ pc = "idle"

NextCreate ==
  \E r \in 1..MaxRequests :
    \/ FindStudy(r)
    \/ CountSessions(r)
    \/ CreateSession(r)
    \/ LogStart(r)

SpecCreate == InitCreate /\ [][NextCreate]_vars

\* C30: two participant sessions of the same study never receive the same
\* displayId, also when the requests that create them are handled
\* concurrently.
C30_DisplayIdsDistinct ==
  \A k \in DOMAIN participantSession, l \in DOMAIN participantSession :
    (k # l /\ participantSession[k].studyId = participantSession[l].studyId)
      => participantSession[k].displayId # participantSession[l].displayId

====
